---- MODULE Spec2Model ----
(***************************************************************************)
(* Model of the MCP gateway: the POST /mcp/:provider orchestrator, the     *)
(* ToolExecution completion handles, the DatabaseService with its          *)
(* in-memory fallback, and the StateManager cache in front of them.        *)
(*                                                                         *)
(* SpecMcp : one POST /mcp/:provider request, step by step at its awaits.  *)
(* SpecSM  : StateManager operations against a durable store that comes    *)
(*           and goes.                                                     *)
(***************************************************************************)
EXTENDS Integers, Sequences, FiniteSets, TLC

\* ------------------------------------------------------------------ bounds
\* Longest tool-call list a model reply carries.
MaxCalls == 2
\* Most ToolExecution records logged through the StateManager directly.
MaxLogged == 1
\* Most saveStateToDb calls in flight at once.
MaxRuns == 2
\* Most operations that need the encryption key at once.
MaxKeyUsers == 2
\* Longest plaintext, in bytes, that is encrypted.
MaxPlain == 3
\* Most writers of the tool registry at once.
MaxWriters == 2
\* Most executions logged to the fallback store.
MaxFbLogged == 120
\* Most invocations of connectDB, overlapping or one after another.
MaxConnCalls == 2
\* Most tools and most configuration entries in a backup file restored.
MaxFileTools == 1
MaxFileConfigs == 2
MaxSignals == 2

\* --------------------------------------------------------------- constants
SupportedProviders == {"anthropic", "openai"}
Providers == SupportedProviders \cup {"other"}
Bodies == {"prompt", "messages", "none"}

\* The names the switch statements of executeTools / executeOpenAITools know.
KnownTools == {"web_search", "web_content", "web_batch",
               "generate_image", "edit_image", "create_image_variation"}

\* Implementations that rethrow their failure (getWebpageContent and
\* fetchMultipleUrls); searchWeb is a placeholder that cannot fail and the
\* image tools catch and return {success: false}.
ThrowingTools == {"web_content", "web_batch"}

\* Tool names a model reply may carry in this model: one known tool that
\* cannot throw, one that can, and one that no case of the switch matches.
ReplyToolNames == {"web_search", "web_content", "foo_bar"}

\* A tool call of a reply. argsOk: whether function.arguments is valid JSON
\* (OpenAI sends a string; Anthropic sends a structured input).
ToolCalls(provider) ==
  [name : ReplyToolNames,
   argsOk : IF provider = "openai" THEN BOOLEAN ELSE {TRUE}]

RECURSIVE SeqsUpTo(_, _)
SeqsUpTo(S, n) ==
  IF n = 0 THEN {<< >>}
  ELSE LET shorter == SeqsUpTo(S, n - 1)
       IN shorter \cup {Append(s, x) : s \in {t \in shorter : Len(t) = n - 1}, x \in S}

VARIABLES
  \* environment
  dbUp,            \* whether the durable store answers connects and queries
  envKey,          \* process.env.ENCRYPTION_KEY, "none" when unset
  procEnv,         \* process.env[key] for the configuration keys, "none" when unset
  \* DatabaseService and the stores behind it
  useFallback,     \* databaseService.useFallback
  isConnected,     \* databaseService.isConnected
  executions,      \* every ToolExecution record created, durable or fallback
  dbTools,         \* durable ToolDefinition collection, by name
  dbConfigs,       \* durable Configuration collection, by key
  sysKeyRow,       \* value of the SYSTEM_ENCRYPTION_KEY row, "none" when absent
  fbTools,         \* InMemoryStore.tools, a Map: the definitions in insertion order
  fbConfigs,       \* InMemoryStore.configurations
  encryptionKeyCache, \* the Configuration model's module-level key cache
  \* StateManager
  changeSinceSync, \* stateManager.state.status.changeSinceSync
  cacheTools,      \* stateManager.state.tools
  cacheConfigs,    \* stateManager.state.configurations
  smLast,          \* the StateManager call made in the last step, if one was
  durableSet,      \* per key, the value the latest setConfig(key, v, true) wrote durably
  lastSync,        \* stateManager.state.status.lastSync is set (FALSE while null)
  syncInterval,    \* stateManager.syncInterval is running
  isShuttingDown,  \* persistenceService.isShuttingDown
  syncInProgress,  \* persistenceService.syncInProgress
  exited,          \* process.exit has been called
  syncRuns,        \* the saveStateToDb calls in flight, each at its await
  syncLast,        \* the saveStateToDb call that returned in the last step, if one did
  \* Configuration model, key resolution step by step
  encryptionKeyPromise, \* the caller whose getEncryptionKey call it holds, 0 when null
  keyCalls,        \* per caller, the getEncryptionKey call it started
  keyUsers,        \* per caller, the operation that needs the key and where it is
  \* DatabaseService called directly
  dbLast,          \* the DatabaseService call made in the last step, if one was, and the values set
  \* encryption and decryption of one value
  crypt,           \* a value, the key and iv it is encrypted under, what decrypts from it
  \* the tool registry under concurrent writers
  regDocs,         \* the documents of the durable ToolDefinition collection, in insertion order
  regOps,          \* per writer, the save, seeding or restore in flight and where it is
  \* the execution list of the fallback store
  fbExecutions,    \* InMemoryStore.executions: the number of each entry, in list order
  fbLogged,        \* how many executions logToolExecution has created
  \* connectDB
  connectionAttempts, \* config/database.js connectionAttempts
  mongoConnected,  \* config/database.js isConnected
  connCalls,       \* per invocation of connectDB, where it is, its attempts and its waits
  \* GET /tools/available
  avReq,           \* req.query of the request
  avRes,           \* the response sent, and whether getAllTools threw
  \* createBackup over two stores
  bkConfigs,       \* the Configuration rows of store 1 and of store 2
  bkBackup,        \* the backup createBackup made of store 1 and of store 2
  \* restoreFromBackup
  rsOp,            \* the restore under way: where it is, what is left of the file
  \* the follow-up conversation of POST /mcp/:provider
  fuOp,            \* the first reply with its tool calls, and the follow-up request sent
  \* POST /tools/... called directly
  dtOp,            \* the request, where its handler is, its handle and its response
  \* saveStateToDb interleaved with saveTool and setConfig
  flOp,            \* the saveTool / setConfig call at its await, and the entry each flush holds
  \* the DatabaseService read after written, the store coming and going
  rwOp,            \* what was last written with success, and the read of the last step
  \* SIGINT / SIGTERM
  sdOp,            \* where PersistenceService.handleShutdown is, the signals received
  \* POST /mcp/:provider handler
  pc,              \* position of the handler
  req,             \* the request: provider, body shape, client availability
  firstReply,      \* "none" | "plain" | "tool_use"
  calls,           \* the tool calls of the first reply
  cursor,          \* loop index of the logging / execution loops
  logger,          \* executionLogger: the completion handle of the 'mcp' record
  results,         \* toolOutputs being built by executeTools / executeOpenAITools
  toolThrew,       \* whether a tool implementation threw in this request
  providerCalls,   \* number of provider SDK calls made
  response,        \* the HTTP response sent, status 0 while none
  trace            \* the events of the request, in order

envVars == <<envKey, procEnv>>
storeVars == <<dbTools, dbConfigs, sysKeyRow, fbTools, fbConfigs, encryptionKeyCache>>
syncVars == <<lastSync, syncInterval, isShuttingDown, syncInProgress, exited,
              syncRuns, syncLast>>
cacheVars == <<cacheTools, cacheConfigs, smLast, durableSet, syncVars>>
smVars == <<changeSinceSync, cacheVars>>
mcpVars == <<pc, req, firstReply, calls, cursor, logger, results, toolThrew,
             providerCalls, response, trace>>
keyVars == <<encryptionKeyPromise, keyCalls, keyUsers>>
regVars == <<regDocs, regOps>>
fbLogVars == <<fbExecutions, fbLogged>>
connVars == <<connectionAttempts, mongoConnected, connCalls>>
availVars == <<avReq, avRes>>
bkVars == <<bkConfigs, bkBackup>>
lateVars == <<rsOp, fuOp, dtOp, flOp, rwOp, sdOp>>
moreVars == <<regVars, fbLogVars, connVars, availVars, bkVars, lateVars>>
otherVars == <<keyVars, dbLast, crypt, moreVars>>
dbVars == <<dbUp, useFallback, isConnected, executions, storeVars, envVars, otherVars>>
vars == <<dbVars, smVars, mcpVars>>

\* A caller that has not begun, and the getEncryptionKey call it has not made.
NoKeyCall == [pc |-> "none", key |-> "none", generated |-> FALSE]
NoKeyUser == [kind |-> "none", pc |-> "idle", used |-> "none"]

\* crypt while no value is being encrypted.
NoCrypt == [pc |-> "none"]

\* No GET /tools/available received, none answered.
NoAvReq == [format |-> "none"]
NoAvRes == [status |-> 0]

\* An invocation of connectDB that has not been made.
NoConnCall == [pc |-> "idle", attempts |-> 0, waits |-> << >>]

\* A writer of the registry that has not begun.
NoRegOp ==
  [kind |-> "none", pc |-> "idle", todo |-> << >>, known |-> {}, found |-> 0,
   outcome |-> "none"]

\* A slot of syncRuns with no call in it, and syncLast when none returned.
IdleRun ==
  [pc |-> "idle", trigger |-> "none", item |-> 0, startDirty |-> {},
   writes |-> << >>, overlapped |-> FALSE]
NoRun == [result |-> "none", skipped |-> FALSE, wrote |-> 0]

\* A step in which no saveStateToDb call starts, goes on or returns.
NoSyncStep ==
  /\ syncLast' = NoRun
  /\ UNCHANGED <<lastSync, syncInterval, isShuttingDown, syncInProgress, exited, syncRuns>>

\* ------------------------------------------------- ToolExecution records
NoHandle == [kind |-> "none", rec |-> 0]
NoResponse == [status |-> 0, body |-> "none"]

NewExecution(name, provider, store) ==
  [toolName |-> name, provider |-> provider, store |-> store,
   status |-> "pending", persisted |-> "pending"]

\* InMemoryStore.logToolExecution: push the pending record, hand out a handle.
\* (One request creates at most 1 + MaxCalls records, far from the cap of 100.)
FallbackLogToolExecution(execs, name, provider) ==
  [execs |-> Append(execs, NewExecution(name, provider, "fallback")),
   handle |-> [kind |-> "fallback", rec |-> Len(execs) + 1],
   connected |-> isConnected]

\* ToolExecution.logExecution: save the pending document; when the save
\* throws, the catch returns a no-op handle and no record exists.
ModelLogExecution(execs, name, provider) ==
  IF dbUp
  THEN [execs |-> Append(execs, NewExecution(name, provider, "durable")),
        handle |-> [kind |-> "durable", rec |-> Len(execs) + 1],
        connected |-> TRUE]
  ELSE [execs |-> execs,
        handle |-> [kind |-> "noop", rec |-> 0],
        connected |-> TRUE]

\* DatabaseService.ensureConnection succeeds when already marked connected
\* or when connectDB reaches the server.
EnsureConnectionOk == isConnected \/ dbUp

\* DatabaseService.logToolExecution.
DbLogToolExecution(execs, name, provider) ==
  IF useFallback THEN FallbackLogToolExecution(execs, name, provider)
  ELSE IF ~EnsureConnectionOk THEN FallbackLogToolExecution(execs, name, provider)
  ELSE ModelLogExecution(execs, name, provider)

\* StateManager.logExecution: marks the state changed and delegates; the
\* delegate never throws, so the dummy handle of its catch is never built.
SMLogExecution(execs, name, provider) == DbLogToolExecution(execs, name, provider)

\* The completion handle: complete(result, error). st is "success" for
\* complete(result) and "failure" for complete(null, error). The durable
\* handle assigns the document's status and then saves; the save throws while
\* the store is down. The fallback handle only assigns. The no-op handle does
\* nothing.
Complete(execs, h, st) ==
  CASE h.kind = "durable" ->
         [execs |-> [execs EXCEPT ![h.rec].status = st,
                                  ![h.rec].persisted = IF dbUp THEN st ELSE @],
          threw |-> ~dbUp]
    [] h.kind = "fallback" ->
         [execs |-> [execs EXCEPT ![h.rec].status = st, ![h.rec].persisted = st],
          threw |-> FALSE]
    [] OTHER -> [execs |-> execs, threw |-> FALSE]

\* ------------------------------------------- tool and configuration values
ConfigKeys == {"ANTHROPIC_API_KEY"}
ConfigValues == {"sk-1"}
SMToolNames == {"web_search"}
ToolRevs == {1, 2}

\* What a lookup hands back: null, a string, the stored "<iv>:<cipher>" text
\* of v under key k, the bytes a wrong key decrypts to, or (fallback store) the
\* whole configuration object.
Null == [t |-> "null"]
Str(v) == [t |-> "str", v |-> v]
Cipher(k, v) == [t |-> "cipher", k |-> k, v |-> v]
Garbage == [t |-> "garbage"]
ConfigObject(v, enc) == [t |-> "obj", value |-> Str(v), isEncrypted |-> enc]
ConfigRow(val, enc) == [t |-> "row", value |-> val, isEncrypted |-> enc]
Tool(name, rev) ==
  [t |-> "tool", name |-> name, rev |-> rev, category |-> "custom", enabled |-> TRUE]
IsNull(x) == x.t = "null"

\* No restoreFromBackup called.
NoRestore == [pc |-> "idle"]

\* No reply with tool calls received.
NoFollowup == [pc |-> "idle"]

\* No direct tool request received.
NoDirect == [pc |-> "idle"]

\* The keys of the Configuration rows of the backup model, sorted; no rows;
\* no backup made.
BkKeys == <<"ANTHROPIC_API_KEY", "PORT", "SYSTEM_ENCRYPTION_KEY">>
NoRows == [i \in 1..Len(BkKeys) |-> Null]
NoBackup == [made |-> FALSE]

\* Every tool name of the model, in the order of a sort by name, and the
\* built-in definitions of a set of names in that order.
SortedNames == <<"calculator", "generate_image", "web_search">>
NamesOf(names) == LET In(n) == n \in names IN SelectSeq(SortedNames, In)
BuiltInTools(names) == [i \in 1..Len(NamesOf(names)) |-> Tool(NamesOf(names)[i], 1)]

\* dbLast when the last step was no direct DatabaseService call: besides the
\* call, dbLast keeps the value each key was last updated to.
NoDbCall ==
  [op |-> "none", key |-> "none", value |-> Null,
   set |-> [k \in ConfigKeys |-> "none"]]

\* smLast when the last step was no StateManager call.
NoCall ==
  [op |-> "none", key |-> "none", decrypt |-> FALSE, outcome |-> "none",
   value |-> Null, down |-> FALSE, dbThrew |-> FALSE]

\* The fields of the DatabaseService, its two stores and the key cache, as
\* one value the operators below take and give back.
Store ==
  [isConnected |-> isConnected, dbTools |-> dbTools, dbConfigs |-> dbConfigs,
   sysKeyRow |-> sysKeyRow, fbTools |-> fbTools, fbConfigs |-> fbConfigs,
   encryptionKeyCache |-> encryptionKeyCache]

SetStore(st) ==
  /\ isConnected' = st.isConnected
  /\ dbTools' = st.dbTools
  /\ dbConfigs' = st.dbConfigs
  /\ sysKeyRow' = st.sysKeyRow
  /\ fbTools' = st.fbTools
  /\ fbConfigs' = st.fbConfigs
  /\ encryptionKeyCache' = st.encryptionKeyCache

Returns(st, v) == [st |-> st, threw |-> FALSE, value |-> v]
Throws(st) == [st |-> st, threw |-> TRUE, value |-> Null]

\* ------------------------------------------------------ Configuration model
\* getEncryptionKey: the environment's key; else the SYSTEM_ENCRYPTION_KEY
\* row, generated and saved when absent; else, the store failing, a key
\* derived from the instance.
getEncryptionKey(st) ==
  IF envKey # "none" THEN [st |-> st, key |-> envKey]
  ELSE IF ~dbUp THEN [st |-> st, key |-> "machine"]
  ELSE IF st.sysKeyRow # "none" THEN [st |-> st, key |-> st.sysKeyRow]
  ELSE [st |-> [st EXCEPT !.sysKeyRow = "generated"], key |-> "generated"]

\* "if (!encryptionKeyCache) encryptionKeyCache = await getEncryptionKey()".
LoadKey(st) ==
  IF st.encryptionKeyCache # "none" THEN st
  ELSE LET r == getEncryptionKey(st)
       IN [r.st EXCEPT !.encryptionKeyCache = r.key]

\* pre('save'): a modified value of an encrypted row is replaced by its
\* ciphertext under the cached key.
PreSave(st, key, val, modified, enc) ==
  IF modified /\ enc
  THEN LET st1 == LoadKey(st)
       IN [st1 EXCEPT !.dbConfigs[key] =
             ConfigRow(Cipher(st1.encryptionKeyCache, val.v), TRUE)]
  ELSE [st EXCEPT !.dbConfigs[key] = ConfigRow(val, enc)]

\* getDecryptedValue: the plaintext under the right key; under another key
\* the padding check throws (caught, null) or, passing by chance, yields
\* other bytes (garble); a value that is no "<iv>:<cipher>" text throws too.
getDecryptedValue(st, row, garble) ==
  IF ~row.isEncrypted THEN row.value
  ELSE IF row.value.t # "cipher" THEN Null
  ELSE IF row.value.k = st.encryptionKeyCache THEN Str(row.value.v)
  ELSE IF garble THEN Garbage ELSE Null

\* updateConfig, store reachable: assign value and flag to the row found, or
\* create the row; save.
updateConfig(st, key, v, enc) ==
  LET row == st.dbConfigs[key]
      same == ~IsNull(row) /\ row.value.t = "str" /\ row.value.v = v
  IN PreSave(st, key, Str(v), ~same, enc)

\* ------------------------------------------------------------ InMemoryStore
\* Map.get, Map.set and Map.delete on a Map of definitions keyed by name: set
\* keeps the place of a key that is there and appends a new one.
MapHas(m, name) == \E i \in 1..Len(m) : m[i].name = name
MapGet(m, name) ==
  IF MapHas(m, name) THEN m[CHOOSE i \in 1..Len(m) : m[i].name = name] ELSE Null
MapSet(m, def) ==
  IF MapHas(m, def.name)
  THEN [m EXCEPT ![CHOOSE i \in 1..Len(m) : m[i].name = def.name] = def]
  ELSE Append(m, def)
MapDelete(m, name) ==
  LET Other(t) == t.name # name IN SelectSeq(m, Other)

FallbackGetToolByName(st, name) == Returns(st, MapGet(st.fbTools, name))

\* getAllTools: the values of the Map in its order, filtered; a definition
\* without the field asked about does not pass.
Matches(tool, options) ==
  /\ options.category # "none" =>
       ("category" \in DOMAIN tool /\ tool.category = options.category)
  /\ options.enabledOnly => ("enabled" \in DOMAIN tool /\ tool.enabled)
FallbackGetAllTools(st, options) ==
  LET Pass(t) == Matches(t, options) IN Returns(st, SelectSeq(st.fbTools, Pass))

\* deleteToolDefinition: whether the Map had the name.
FallbackDeleteToolDefinition(st, name) ==
  Returns([st EXCEPT !.fbTools = MapDelete(st.fbTools, name)],
          [t |-> "bool", b |-> MapHas(st.fbTools, name)])

\* saveToolDefinition: the definition given, as it is, takes the place of
\* whatever the Map held under its name.
FallbackSaveToolDefinition(st, def) ==
  Returns([st EXCEPT !.fbTools = MapSet(st.fbTools, def)], def)
FallbackGetConfiguration(st, key) == Returns(st, st.fbConfigs[key])
FallbackUpdateConfiguration(st, key, v, enc) ==
  Returns([st EXCEPT !.fbConfigs[key] = ConfigObject(v, enc)], ConfigObject(v, enc))

\* ---------------------------------------------------------- DatabaseService
\* ensureConnection, when it succeeds, leaves isConnected true.
Connected(st) == [st EXCEPT !.isConnected = TRUE]
CanConnect(st) == st.isConnected \/ dbUp

\* getToolByName: the query is returned without await, so its rejection is
\* not caught here and reaches the caller.
DbGetToolByName(st, name) ==
  IF useFallback THEN FallbackGetToolByName(st, name)
  ELSE IF ~CanConnect(st) THEN FallbackGetToolByName(st, name)
  ELSE IF ~dbUp THEN Throws(Connected(st))
  ELSE Returns(Connected(st), st.dbTools[name])

\* Object.assign(existingTool, toolDefinition): the fields of the definition
\* given replace those of the record found, the others stay. create: the
\* schema's defaults fill the fields the definition leaves out.
Assign(existingTool, def) ==
  [f \in DOMAIN existingTool \cup DOMAIN def |->
     IF f \in DOMAIN def THEN def[f] ELSE existingTool[f]]
SchemaDefaults == [category |-> "custom", enabled |-> TRUE]
WithDefaults(def) == Assign(SchemaDefaults, def)

\* saveToolDefinition: findOne is awaited, so an unreachable store lands in
\* the catch and the definition goes to the fallback store. The save() or
\* create() that follows is returned without await: when it rejects (the
\* store lost after the lookup, a validation error: saveFails) the rejection
\* reaches the caller and nothing is written anywhere.
DbSaveToolDefinition(st, def, saveFails) ==
  IF useFallback THEN FallbackSaveToolDefinition(st, def)
  ELSE IF ~CanConnect(st) THEN FallbackSaveToolDefinition(st, def)
  ELSE IF ~dbUp THEN FallbackSaveToolDefinition(Connected(st), def)
  ELSE IF saveFails THEN Throws(Connected(st))
  ELSE LET existingTool == st.dbTools[def.name]
           saved == IF IsNull(existingTool) THEN WithDefaults(def)
                    ELSE Assign(existingTool, def)
       IN Returns([Connected(st) EXCEPT !.dbTools[def.name] = saved], saved)

\* getAllTools: find(query).sort({ name: 1 }), returned without await.
DbGetAllTools(st, options) ==
  IF useFallback THEN FallbackGetAllTools(st, options)
  ELSE IF ~CanConnect(st) THEN FallbackGetAllTools(st, options)
  ELSE IF ~dbUp THEN Throws(Connected(st))
  ELSE LET found == {n \in DOMAIN st.dbTools :
                       ~IsNull(st.dbTools[n]) /\ Matches(st.dbTools[n], options)}
       IN Returns(Connected(st),
                  [i \in 1..Len(NamesOf(found)) |-> st.dbTools[NamesOf(found)[i]]])

\* deleteToolDefinition: deleteOne is awaited, so an unreachable store lands
\* in the catch and the fallback store answers.
DbDeleteToolDefinition(st, name) ==
  IF useFallback THEN FallbackDeleteToolDefinition(st, name)
  ELSE IF ~CanConnect(st) THEN FallbackDeleteToolDefinition(st, name)
  ELSE IF ~dbUp THEN FallbackDeleteToolDefinition(Connected(st), name)
  ELSE Returns([Connected(st) EXCEPT !.dbTools[name] = Null],
               [t |-> "bool", b |-> ~IsNull(st.dbTools[name])])

\* getConfiguration: getByKey is awaited and getDecryptedValue catches, so
\* nothing escapes; an unreachable store answers from the fallback store.
DbGetConfiguration(st, key, decrypt, garble) ==
  IF useFallback THEN FallbackGetConfiguration(st, key)
  ELSE IF ~CanConnect(st) THEN FallbackGetConfiguration(st, key)
  ELSE LET st1 == LoadKey(Connected(st))
           row == st1.dbConfigs[key]
       IN IF ~dbUp THEN FallbackGetConfiguration(st1, key)
          ELSE IF IsNull(row) THEN Returns(st1, Null)
          ELSE IF decrypt /\ row.isEncrypted
               THEN Returns(st1, getDecryptedValue(st1, row, garble))
               ELSE Returns(st1, row.value)

\* updateConfiguration: updateConfig is returned without await, so its
\* rejection reaches the caller.
DbUpdateConfiguration(st, key, v, enc) ==
  IF useFallback THEN FallbackUpdateConfiguration(st, key, v, enc)
  ELSE IF ~CanConnect(st) THEN FallbackUpdateConfiguration(st, key, v, enc)
  ELSE IF ~dbUp THEN Throws(Connected(st))
  ELSE LET st1 == updateConfig(Connected(st), key, v, enc)
       IN Returns(st1, st1.dbConfigs[key])

\* ------------------------------------------------------- request events
Event(kind, n) == <<kind, n>>

\* ------------------------------------------------ POST /mcp/:provider
\* Line 94-107: the request arrives and the 'mcp' record is logged.
ReceiveRequest(p, b, c) ==
  /\ pc = "idle"
  /\ LET r == SMLogExecution(executions, "mcp", p)
     IN /\ executions' = r.execs
        /\ isConnected' = r.connected
        /\ logger' = r.handle
        /\ trace' = IF r.handle.kind = "noop" THEN trace
                    ELSE Append(trace, Event("write_pending", r.handle.rec))
  /\ changeSinceSync' = TRUE
  /\ req' = [provider |-> p, body |-> b, client |-> c]
  /\ pc' = "dispatch"
  /\ UNCHANGED <<dbUp, useFallback, storeVars, envVars, otherVars, cacheVars, firstReply, calls,
                 cursor, results, toolThrew, providerCalls, response>>

\* Line 128-132: unsupported provider, completed with the error and a 400.
\* A throwing complete lands in the catch block like any other throw.
RejectProvider ==
  /\ pc = "dispatch"
  /\ req.provider \notin SupportedProviders
  /\ LET r == Complete(executions, logger, "failure")
     IN /\ executions' = r.execs
        /\ IF r.threw
           THEN /\ pc' = "catch"
                /\ response' = response
                /\ trace' = Append(trace, Event("complete", logger.rec))
           ELSE /\ pc' = "done"
                /\ response' = [status |-> 400, body |-> "error_json"]
                /\ trace' = trace \o <<Event("complete", logger.rec), Event("respond", 400)>>
  /\ UNCHANGED <<dbUp, useFallback, isConnected, storeVars, envVars, otherVars, smVars, req, firstReply,
                 calls, cursor, logger, results, toolThrew, providerCalls>>

\* handleAnthropicRequest / handleOpenAIRequest throw before any SDK call when
\* the client was never constructed or when the body has neither messages nor
\* prompt (lines 511-513, 540-542, 546-548, 587-589).
HandlerRejects ==
  /\ pc = "dispatch"
  /\ req.provider \in SupportedProviders
  /\ ~req.client \/ req.body = "none"
  /\ pc' = "catch"
  /\ UNCHANGED <<dbVars, smVars, req, firstReply, calls, cursor, logger, results,
                 toolThrew, providerCalls, response, trace>>

CanCallProvider ==
  /\ pc = "dispatch"
  /\ req.provider \in SupportedProviders
  /\ req.client
  /\ req.body # "none"

\* The first provider call throws (network, auth, quota).
FirstCallThrows ==
  /\ CanCallProvider
  /\ providerCalls' = providerCalls + 1
  /\ trace' = Append(trace, Event("provider_call", 1))
  /\ pc' = "catch"
  /\ UNCHANGED <<dbVars, smVars, req, firstReply, calls, cursor, logger, results,
                 toolThrew, response>>

\* The first reply does not signal tool use: fall through to line 214.
FirstReplyPlain ==
  /\ CanCallProvider
  /\ providerCalls' = providerCalls + 1
  /\ trace' = Append(trace, Event("provider_call", 1))
  /\ firstReply' = "plain"
  /\ pc' = "complete"
  /\ UNCHANGED <<dbVars, smVars, req, calls, cursor, logger, results, toolThrew,
                 response>>

\* The first reply signals tool use (lines 135, 170) with the calls cs.
FirstReplyToolUse(cs) ==
  /\ CanCallProvider
  /\ providerCalls' = providerCalls + 1
  /\ trace' = Append(trace, Event("provider_call", 1))
  /\ firstReply' = "tool_use"
  /\ calls' = cs
  /\ cursor' = 1
  /\ pc' = IF cs = << >> THEN "exec_tools" ELSE "log_tools"
  /\ UNCHANGED <<dbVars, smVars, req, logger, results, toolThrew, response>>

\* Lines 138-148 and 172-182: one iteration of the logging loop. The handle
\* that stateManager.logExecution returns is dropped. For OpenAI the inputs
\* are JSON.parse(arguments), which throws on malformed arguments.
LogToolCall ==
  /\ pc = "log_tools"
  /\ cursor <= Len(calls)
  /\ IF req.provider = "openai" /\ ~calls[cursor].argsOk
     THEN /\ pc' = "catch"
          /\ UNCHANGED <<executions, isConnected, changeSinceSync, cursor, trace>>
     ELSE LET r == SMLogExecution(executions, calls[cursor].name, req.provider)
          IN /\ executions' = r.execs
             /\ isConnected' = r.connected
             /\ changeSinceSync' = TRUE
             /\ trace' = Append(trace, Event("tool_log", cursor))
             /\ IF cursor = Len(calls)
                THEN pc' = "exec_tools" /\ cursor' = 1
                ELSE pc' = pc /\ cursor' = cursor + 1
  /\ UNCHANGED <<dbUp, useFallback, storeVars, envVars, otherVars, cacheVars, req, firstReply, calls,
                 logger, results, toolThrew, providerCalls, response>>

\* The entry a call contributes to the result list.
ToolOutput(call, pos) ==
  IF call.name \in KnownTools
  THEN [pos |-> pos, name |-> call.name, kind |-> "output"]
  ELSE [pos |-> pos, name |-> call.name, kind |-> "unknown_tool"]

\* executeTools / executeOpenAITools, one iteration of the loop (lines
\* 600-677, 691-763) whose tool returns: a known tool's payload or the
\* default case's {error: "Unknown tool: <name>"}.
ExecToolReturns ==
  /\ pc = "exec_tools"
  /\ cursor <= Len(calls)
  /\ results' = Append(results, ToolOutput(calls[cursor], cursor))
  /\ trace' = Append(trace, Event("tool_exec", cursor))
  /\ cursor' = cursor + 1
  /\ UNCHANGED <<dbVars, smVars, pc, req, firstReply, calls, logger, toolThrew,
                 providerCalls, response>>

\* One iteration whose tool implementation throws: the try around the whole
\* loop catches it and rethrows "Tool execution failed: ..." (lines 680-683,
\* 766-769), which leaves the handler's try for its catch.
ExecToolThrows ==
  /\ pc = "exec_tools"
  /\ cursor <= Len(calls)
  /\ calls[cursor].name \in ThrowingTools
  /\ toolThrew' = TRUE
  /\ trace' = Append(trace, Event("tool_exec", cursor))
  /\ pc' = "catch"
  /\ UNCHANGED <<dbVars, smVars, req, firstReply, calls, cursor, logger, results,
                 providerCalls, response>>

FollowupReady == pc = "exec_tools" /\ cursor > Len(calls)

\* Lines 154-161, 200-203: the follow-up call throws.
FollowupThrows ==
  /\ FollowupReady
  /\ providerCalls' = providerCalls + 1
  /\ trace' = Append(trace, Event("followup_call", 2))
  /\ pc' = "catch"
  /\ UNCHANGED <<dbVars, smVars, req, firstReply, calls, cursor, logger, results,
                 toolThrew, response>>

\* The follow-up call returns; whatever it holds is the final reply.
FollowupReturns ==
  /\ FollowupReady
  /\ providerCalls' = providerCalls + 1
  /\ trace' = Append(trace, Event("followup_call", 2))
  /\ pc' = "complete"
  /\ UNCHANGED <<dbVars, smVars, req, firstReply, calls, cursor, logger, results,
                 toolThrew, response>>

\* complete(result) started without awaiting it: the response leaves first.
CompleteAndRespond_NoAwait ==
  /\ pc = "complete"
  /\ executions' = Complete(executions, logger, "success").execs
  /\ pc' = "done"
  /\ response' = [status |-> 200, body |-> "provider_reply"]
  /\ trace' = trace \o <<Event("respond", 200), Event("complete", logger.rec)>>
  /\ UNCHANGED <<dbUp, useFallback, isConnected, storeVars, envVars, otherVars, smVars, req, firstReply,
                 calls, cursor, logger, results, toolThrew, providerCalls>>

\* Lines 164-169, 206-211, 215-220: complete(result), then res.json. When the
\* completion's save throws, control goes to the catch block.
CompleteAndRespond ==
  /\ pc = "complete"
  /\ LET r == Complete(executions, logger, "success")
     IN /\ executions' = r.execs
        /\ IF r.threw
           THEN /\ pc' = "catch"
                /\ response' = response
                /\ trace' = Append(trace, Event("complete", logger.rec))
           ELSE /\ pc' = "done"
                /\ response' = [status |-> 200, body |-> "provider_reply"]
                /\ trace' = trace \o <<Event("complete", logger.rec), Event("respond", 200)>>
  /\ UNCHANGED <<dbUp, useFallback, isConnected, storeVars, envVars, otherVars, smVars, req, firstReply,
                 calls, cursor, logger, results, toolThrew, providerCalls>>

\* The catch block answering without completing the record.
CatchBlock_SkipsComplete ==
  /\ pc = "catch"
  /\ response' = [status |-> 500, body |-> "error_json"]
  /\ trace' = Append(trace, Event("respond", 500))
  /\ pc' = "done"
  /\ UNCHANGED <<dbVars, smVars, req, firstReply, calls, cursor, logger,
                 results, toolThrew, providerCalls>>

\* Lines 221-228: complete(null, error), then the 500 {error: message}. When
\* this completion throws too, the rejection leaves the handler and the
\* framework's error handler answers 500 with its own body.
CatchBlock ==
  /\ pc = "catch"
  /\ LET r == Complete(executions, logger, "failure")
     IN /\ executions' = r.execs
        /\ response' = [status |-> 500,
                        body |-> IF r.threw THEN "framework_error" ELSE "error_json"]
  /\ trace' = trace \o <<Event("complete", logger.rec), Event("respond", 500)>>
  /\ pc' = "done"
  /\ UNCHANGED <<dbUp, useFallback, isConnected, storeVars, envVars, otherVars, smVars, req, firstReply,
                 calls, cursor, logger, results, toolThrew, providerCalls>>

\* The durable store goes away or comes back while the request is handled.
StoreFlips ==
  /\ pc # "done"
  /\ dbUp' = ~dbUp
  /\ NoSyncStep
  /\ smLast' = NoCall
  /\ UNCHANGED <<useFallback, isConnected, executions, storeVars, envVars, otherVars, changeSinceSync,
                 cacheTools, cacheConfigs, durableSet, mcpVars>>

\* DatabaseService after initialize(): connected, or in fallback mode, or
\* (initialize not run, or run with allowFallback false) neither.
\* No operation that needs the key has begun; no direct DatabaseService call.
IdleReg ==
  /\ regDocs = << >>
  /\ regOps = [w \in 1..MaxWriters |-> NoRegOp]

IdleFbLog ==
  /\ fbExecutions = << >>
  /\ fbLogged = 0

IdleConn ==
  /\ connectionAttempts = 0
  /\ mongoConnected = FALSE
  /\ connCalls = [c \in 1..MaxConnCalls |-> NoConnCall]

IdleBackup ==
  /\ bkConfigs = <<NoRows, NoRows>>
  /\ bkBackup = <<NoBackup, NoBackup>>

IdleAvail ==
  /\ avReq = NoAvReq
  /\ avRes = NoAvRes

\* No saveTool or setConfig at its await, no flush holding an entry.
NoHeld == [entry |-> Null, same |-> FALSE]
NoFlush == [call |-> [pc |-> "idle"], held |-> [s \in 1..MaxRuns |-> NoHeld]]

\* Nothing written through the DatabaseService, nothing read.
NoRead == [op |-> "none", key |-> "none", value |-> Null, threw |-> FALSE]
NoRyw == [saved |-> Null, set |-> "none", read |-> NoRead]

\* No signal received.
NoShutdown == [pc |-> "serving", signals |-> 0, psRun |-> 0]

IdleRestore == rsOp = NoRestore

IdleFollowup == fuOp = NoFollowup
IdleDirect == dtOp = NoDirect
IdleFlush == flOp = NoFlush
IdleRyw == rwOp = NoRyw
IdleShutdown == sdOp = NoShutdown

IdleLate ==
  /\ IdleRestore
  /\ IdleFollowup
  /\ IdleDirect
  /\ IdleFlush
  /\ IdleRyw
  /\ IdleShutdown

IdleButBackup ==
  /\ IdleReg
  /\ IdleFbLog
  /\ IdleConn
  /\ IdleAvail
  /\ IdleLate

InitMore ==
  /\ IdleButBackup
  /\ IdleBackup

InitOther ==
  /\ encryptionKeyPromise = 0
  /\ keyCalls = [u \in 1..MaxKeyUsers |-> NoKeyCall]
  /\ keyUsers = [u \in 1..MaxKeyUsers |-> NoKeyUser]
  /\ dbLast = NoDbCall
  /\ crypt = NoCrypt
  /\ InitMore

InitDb ==
  /\ dbUp \in BOOLEAN
  /\ useFallback \in BOOLEAN
  /\ isConnected \in BOOLEAN
  /\ ~(useFallback /\ isConnected)
  /\ executions = << >>
  /\ InitOther

\* Nothing stored, nothing cached, no key loaded.
InitSyncState ==
  /\ lastSync = FALSE
  /\ syncInterval = TRUE
  /\ isShuttingDown = FALSE
  /\ syncInProgress = FALSE
  /\ exited = FALSE
  /\ syncRuns = [s \in 1..MaxRuns |-> IdleRun]
  /\ syncLast = NoRun

InitCache ==
  /\ InitSyncState
  /\ changeSinceSync = FALSE
  /\ cacheTools = [n \in SMToolNames |-> Null]
  /\ cacheConfigs = [k \in ConfigKeys |-> Null]
  /\ smLast = NoCall
  /\ durableSet = [k \in ConfigKeys |-> "none"]

EmptyStores ==
  /\ dbTools = [n \in SMToolNames |-> Null]
  /\ dbConfigs = [k \in ConfigKeys |-> Null]
  /\ sysKeyRow = "none"
  /\ fbTools = << >>
  /\ fbConfigs = [k \in ConfigKeys |-> Null]
  /\ encryptionKeyCache = "none"

InitMcp ==
  /\ InitDb
  /\ EmptyStores
  /\ envKey = "none"
  /\ procEnv = [k \in ConfigKeys |-> "none"]
  /\ InitCache
  /\ pc = "idle"
  /\ req = [provider |-> "anthropic", body |-> "none", client |-> FALSE]
  /\ firstReply = "none"
  /\ calls = << >>
  /\ cursor = 1
  /\ logger = NoHandle
  /\ results = << >>
  /\ toolThrew = FALSE
  /\ providerCalls = 0
  /\ response = NoResponse
  /\ trace = << >>

NextMcp ==
  \/ \E p \in Providers, b \in Bodies, c \in BOOLEAN : ReceiveRequest(p, b, c)
  \/ RejectProvider
  \/ HandlerRejects
  \/ FirstCallThrows
  \/ FirstReplyPlain
  \/ \E cs \in SeqsUpTo(ToolCalls(req.provider), MaxCalls) : FirstReplyToolUse(cs)
  \/ LogToolCall
  \/ ExecToolReturns
  \/ ExecToolThrows
  \/ FollowupThrows
  \/ FollowupReturns
  \/ CompleteAndRespond
  \/ CatchBlock
  \/ StoreFlips

SpecMcp == InitMcp /\ [][NextMcp]_vars

\* ======================================================================
\*  StateManager (SpecSM)
\* ======================================================================
Bool(b) == [t |-> "bool", b |-> b]
CacheTool(def, dirty) ==
  [t |-> "tool", name |-> def.name, rev |-> def.rev, dirty |-> dirty]
CacheConfig(val, enc, dirty) ==
  [t |-> "entry", value |-> val, isEncrypted |-> enc, dirty |-> dirty]

\* What a call was given and how it ended, kept to state the properties.
Call(op, key, decrypt, outcome, value, dbThrew) ==
  [op |-> op, key |-> key, decrypt |-> decrypt, outcome |-> outcome,
   value |-> value, down |-> ~dbUp, dbThrew |-> dbThrew]

SMFrame == NoSyncStep /\ UNCHANGED <<dbUp, useFallback, envVars, otherVars, mcpVars>>

\* getTool with the try/catch around the DatabaseService call removed.
SMGetTool_NoCatch(name) ==
  /\ IF ~IsNull(cacheTools[name])
     THEN /\ smLast' = Call("getTool", name, FALSE, "return", cacheTools[name], FALSE)
          /\ UNCHANGED <<isConnected, storeVars, cacheTools>>
     ELSE LET r == DbGetToolByName(Store, name)
              hit == ~r.threw /\ ~IsNull(r.value)
              tool == IF hit THEN CacheTool(r.value, FALSE) ELSE Null
          IN /\ SetStore(r.st)
             /\ cacheTools' = IF hit THEN [cacheTools EXCEPT ![name] = tool]
                              ELSE cacheTools
             /\ smLast' = Call("getTool", name, FALSE,
                               IF r.threw THEN "throw" ELSE "return", tool, r.threw)
  /\ UNCHANGED <<executions, changeSinceSync, cacheConfigs, durableSet>>
  /\ SMFrame

\* getTool: the cache, else the store; a tool found is cached; a failing
\* store is logged and answered with null.
SMGetTool(name) ==
  /\ IF ~IsNull(cacheTools[name])
     THEN /\ smLast' = Call("getTool", name, FALSE, "return", cacheTools[name], FALSE)
          /\ UNCHANGED <<isConnected, storeVars, cacheTools>>
     ELSE LET r == DbGetToolByName(Store, name)
              hit == ~r.threw /\ ~IsNull(r.value)
              tool == IF hit THEN CacheTool(r.value, FALSE) ELSE Null
          IN /\ SetStore(r.st)
             /\ cacheTools' = IF hit THEN [cacheTools EXCEPT ![name] = tool]
                              ELSE cacheTools
             /\ smLast' = Call("getTool", name, FALSE, "return", tool, r.threw)
  /\ UNCHANGED <<executions, changeSinceSync, cacheConfigs, durableSet>>
  /\ SMFrame

\* saveTool: throws for a definition without a name; otherwise caches the
\* definition as dirty, writes through, and caches what the DatabaseService
\* returned as clean.
SMSaveTool(def, saveFails) ==
  /\ IF def.name = ""
     THEN /\ smLast' = Call("saveTool", def.name, FALSE, "throw", Null, FALSE)
          /\ UNCHANGED <<isConnected, storeVars, cacheTools, changeSinceSync>>
     ELSE LET r == DbSaveToolDefinition(Store, Tool(def.name, def.rev), saveFails)
              saved == ~r.threw /\ ~IsNull(r.value)
              tool == IF saved THEN CacheTool(r.value, FALSE) ELSE CacheTool(def, TRUE)
          IN /\ SetStore(r.st)
             /\ cacheTools' = [cacheTools EXCEPT ![def.name] = tool]
             /\ changeSinceSync' = TRUE
             /\ smLast' = Call("saveTool", def.name, FALSE, "return", tool, r.threw)
  /\ UNCHANGED <<executions, cacheConfigs, durableSet>>
  /\ SMFrame

\* getConfig: a cached entry answers, except that an encrypted entry asked
\* for decrypted is fetched through the DatabaseService; a miss goes to the
\* DatabaseService, then to the process environment, then null.
SMGetConfig(key, decrypt, garble) ==
  /\ LET config == cacheConfigs[key]
     IN IF ~IsNull(config)
        THEN IF decrypt /\ config.isEncrypted
             THEN LET r == DbGetConfiguration(Store, key, decrypt, garble)
                  IN /\ SetStore(r.st)
                     /\ smLast' = Call("getConfig", key, decrypt, "return",
                                       IF r.threw THEN config.value ELSE r.value,
                                       r.threw)
                     /\ cacheConfigs' = cacheConfigs
             ELSE /\ smLast' = Call("getConfig", key, decrypt, "return",
                                    config.value, FALSE)
                  /\ UNCHANGED <<isConnected, storeVars, cacheConfigs>>
        ELSE LET r == DbGetConfiguration(Store, key, decrypt, garble)
                 found == ~r.threw /\ ~IsNull(r.value)
             IN /\ SetStore(r.st)
                /\ cacheConfigs' =
                     IF found
                     THEN [cacheConfigs EXCEPT ![key] = CacheConfig(r.value, decrypt, FALSE)]
                     ELSE cacheConfigs
                /\ smLast' = Call("getConfig", key, decrypt, "return",
                                  IF found THEN r.value
                                  ELSE IF procEnv[key] # "none" THEN Str(procEnv[key])
                                  ELSE Null,
                                  r.threw)
  /\ UNCHANGED <<executions, changeSinceSync, cacheTools, durableSet>>
  /\ SMFrame

\* setConfig: caches the entry as dirty, writes through, clears the flag
\* and returns true; a throwing write returns false and leaves the flag.
SMSetConfig(key, v, enc) ==
  /\ LET r == DbUpdateConfiguration(Store, key, v, enc)
         durable == ~useFallback /\ CanConnect(Store) /\ ~r.threw
     IN /\ SetStore(r.st)
        /\ cacheConfigs' = [cacheConfigs EXCEPT ![key] = CacheConfig(Str(v), enc, r.threw)]
        /\ smLast' = Call("setConfig", key, FALSE, "return", Bool(~r.threw), r.threw)
        /\ durableSet' = [durableSet EXCEPT ![key] = IF durable /\ enc THEN v ELSE "none"]
  /\ changeSinceSync' = TRUE
  /\ UNCHANGED <<executions, cacheTools>>
  /\ SMFrame

\* deleteTool: drops the cached definition, marks the state changed if there
\* was one, and deletes through the DatabaseService; true unless that call
\* throws, when it is whether the cache had the definition. smLast also
\* keeps whether cache or stores held the name before.
SMDeleteTool(name) ==
  /\ LET hadTool == ~IsNull(cacheTools[name])
         r == DbDeleteToolDefinition(Store, name)
     IN /\ SetStore(r.st)
        /\ cacheTools' = [cacheTools EXCEPT ![name] = Null]
        /\ changeSinceSync' = (hadTool \/ changeSinceSync)
        /\ smLast' = [op |-> "deleteTool", key |-> name, decrypt |-> FALSE,
                      outcome |-> "return",
                      value |-> IF r.threw THEN Bool(hadTool) ELSE Bool(TRUE),
                      down |-> ~dbUp, dbThrew |-> r.threw,
                      existed |-> \/ hadTool
                                  \/ ~IsNull(dbTools[name])
                                  \/ MapHas(fbTools, name)]
  /\ UNCHANGED <<executions, cacheConfigs, durableSet>>
  /\ SMFrame

\* logExecution called directly (the /tools/* routes): marks the state
\* changed and returns the handle of the DatabaseService.
SMLogExecutionCall(name) ==
  /\ Len(executions) < MaxLogged
  /\ LET r == SMLogExecution(executions, name, "direct")
     IN /\ executions' = r.execs
        /\ isConnected' = r.connected
        /\ smLast' = Call("logExecution", name, FALSE, "return",
                          [t |-> "handle", kind |-> r.handle.kind], FALSE)
  /\ changeSinceSync' = TRUE
  /\ UNCHANGED <<storeVars, cacheTools, cacheConfigs, durableSet>>
  /\ SMFrame

\* The API key the process environment carries.
EnvApiKey == "sk-env"

\* What initialize() leaves behind: with the store connected, the API key
\* of the environment saved encrypted and the built-in tools migrated; in
\* fallback mode, the same put into the in-memory store; neither when
\* initialize() did not get that far.
InitSM ==
  /\ InitDb
  /\ envKey = "none"
  /\ procEnv = [k \in ConfigKeys |-> EnvApiKey]
  /\ LET key == IF envKey # "none" THEN envKey ELSE "generated"
     IN /\ dbTools = [n \in SMToolNames |-> IF isConnected THEN Tool(n, 1) ELSE Null]
        /\ fbTools = IF useFallback THEN BuiltInTools(SMToolNames) ELSE << >>
        /\ dbConfigs = [k \in ConfigKeys |->
                          IF isConnected
                          THEN ConfigRow(Cipher(key, EnvApiKey), TRUE) ELSE Null]
        /\ fbConfigs = [k \in ConfigKeys |->
                          IF useFallback THEN ConfigObject(EnvApiKey, TRUE) ELSE Null]
        /\ encryptionKeyCache = IF isConnected THEN key ELSE "none"
        /\ sysKeyRow = IF isConnected /\ envKey = "none" THEN "generated" ELSE "none"
  /\ InitCache
  /\ pc = "idle"
  /\ req = [provider |-> "anthropic", body |-> "none", client |-> FALSE]
  /\ firstReply = "none"
  /\ calls = << >>
  /\ cursor = 1
  /\ logger = NoHandle
  /\ results = << >>
  /\ toolThrew = FALSE
  /\ providerCalls = 0
  /\ response = NoResponse
  /\ trace = << >>

SMToolDefs == [name : SMToolNames \cup {""}, rev : ToolRevs]

NextSM ==
  \/ \E n \in SMToolNames : SMGetTool(n)
  \/ \E d \in SMToolDefs, f \in BOOLEAN : SMSaveTool(d, f)
  \/ \E k \in ConfigKeys, d \in BOOLEAN, g \in BOOLEAN : SMGetConfig(k, d, g)
  \/ \E k \in ConfigKeys, v \in ConfigValues, e \in BOOLEAN : SMSetConfig(k, v, e)
  \/ \E n \in SMToolNames : SMLogExecutionCall(n)
  \/ StoreFlips

SpecSM == InitSM /\ [][NextSM]_vars

\* ======================================================================
\*  saveStateToDb and its triggers (SpecSync)
\* ======================================================================
\* Who calls saveStateToDb: the interval timer, POST /admin/sync,
\* StateManager.handleShutdown and PersistenceService.handleShutdown.
Triggers == {"timer", "admin", "smShutdown", "psShutdown"}

RECURSIVE SeqOf(_)
SeqOf(S) ==
  IF S = {} THEN << >>
  ELSE LET x == CHOOSE y \in S : TRUE IN <<x>> \o SeqOf(S \ {x})

\* The entries saveStateToDb walks: the tools map, then the configurations.
SyncItems ==
  SeqOf({[kind |-> "tool", id |-> n] : n \in SMToolNames})
    \o SeqOf({[kind |-> "config", id |-> k] : k \in ConfigKeys})

EntryOf(tools, configs, i) ==
  IF SyncItems[i].kind = "tool" THEN tools[SyncItems[i].id]
  ELSE configs[SyncItems[i].id]

DirtyItems(tools, configs) ==
  {i \in 1..Len(SyncItems) :
     ~IsNull(EntryOf(tools, configs, i)) /\ EntryOf(tools, configs, i).dirty}

\* The next entry after position i whose _dirty flag is set, 0 when none.
NextDirty(tools, configs, i) ==
  LET later == {j \in DirtyItems(tools, configs) : j > i}
  IN IF later = {} THEN 0 ELSE CHOOSE j \in later : \A k \in later : j <= k

Running == {s \in 1..MaxRuns : syncRuns[s].pc # "idle"}
Quiet == Running = {} /\ ~exited

\* What a returning call leaves in syncLast.
Finished(run, skipped, result) ==
  [result |-> result, skipped |-> skipped, wrote |-> Len(run.writes)]

\* PersistenceService.handleShutdown goes on to close the store and exit
\* once its syncStateToDatabase has returned.
AfterReturn(trigger) ==
  /\ syncInProgress' = IF trigger = "psShutdown" THEN FALSE ELSE syncInProgress
  /\ exited' = IF trigger = "psShutdown" THEN TRUE ELSE exited

\* A trigger calls saveStateToDb. The call returns at once when nothing
\* changed since the last sync, in fallback mode, or when no entry is dirty;
\* otherwise it starts the first write and waits for it.
SyncStart(s, trigger) ==
  /\ ~exited
  /\ syncRuns[s].pc = "idle"
  /\ \A r \in 1..(s - 1) : syncRuns[r].pc # "idle"
  /\ trigger = "timer" => syncInterval
  /\ trigger = "psShutdown" => ~isShuttingDown /\ ~syncInProgress
  /\ syncInterval' = IF trigger = "smShutdown" THEN FALSE ELSE syncInterval
  /\ isShuttingDown' = IF trigger = "psShutdown" THEN TRUE ELSE isShuttingDown
  /\ LET first == NextDirty(cacheTools, cacheConfigs, 0)
         run == [pc |-> "writing", trigger |-> trigger, item |-> first,
                 startDirty |-> DirtyItems(cacheTools, cacheConfigs),
                 writes |-> << >>, overlapped |-> Running # {}]
     IN IF ~changeSinceSync /\ lastSync
        THEN /\ syncLast' = Finished(run, TRUE, "true")
             /\ AfterReturn(trigger)
             /\ UNCHANGED <<syncRuns, lastSync, changeSinceSync>>
        ELSE IF useFallback \/ first = 0
        THEN /\ syncLast' = Finished(run, FALSE, "true")
             /\ lastSync' = TRUE
             /\ changeSinceSync' = FALSE
             /\ AfterReturn(trigger)
             /\ UNCHANGED syncRuns
        ELSE /\ syncRuns' = [r \in 1..MaxRuns |->
                               IF r = s THEN run
                               ELSE IF syncRuns[r].pc # "idle"
                                    THEN [syncRuns[r] EXCEPT !.overlapped = TRUE]
                                    ELSE syncRuns[r]]
             /\ syncInProgress' = IF trigger = "psShutdown" THEN TRUE ELSE syncInProgress
             /\ syncLast' = NoRun
             /\ UNCHANGED <<lastSync, changeSinceSync, exited>>
  /\ smLast' = NoCall
  /\ UNCHANGED <<dbUp, useFallback, isConnected, executions, storeVars, envVars, otherVars,
                 cacheTools, cacheConfigs, durableSet, mcpVars>>

\* SyncWriteDone without "config._dirty = false".
SyncWriteDone_KeepsFlag(s, saveFails) ==
  /\ ~exited
  /\ syncRuns[s].pc = "writing"
  /\ LET run == syncRuns[s]
         it == SyncItems[run.item]
         entry == EntryOf(cacheTools, cacheConfigs, run.item)
         r == IF it.kind = "tool"
              THEN DbSaveToolDefinition(Store, Tool(entry.name, entry.rev), saveFails)
              ELSE DbUpdateConfiguration(Store, it.id, entry.value.v, entry.isEncrypted)
         tools == IF it.kind = "tool" /\ ~r.threw
                  THEN [cacheTools EXCEPT ![it.id].dirty = FALSE] ELSE cacheTools
         configs == IF it.kind = "config" /\ ~r.threw
                    THEN cacheConfigs ELSE cacheConfigs
         wrote == [run EXCEPT !.writes = Append(@, run.item)]
         next == NextDirty(tools, configs, run.item)
     IN /\ SetStore(r.st)
        /\ cacheTools' = tools
        /\ cacheConfigs' = configs
        /\ IF r.threw
           THEN /\ syncRuns' = [syncRuns EXCEPT ![s] = IdleRun]
                /\ syncLast' = Finished(run, FALSE, "false")
                /\ AfterReturn(run.trigger)
                /\ UNCHANGED <<lastSync, changeSinceSync>>
           ELSE IF next = 0
           THEN /\ syncRuns' = [syncRuns EXCEPT ![s] = IdleRun]
                /\ syncLast' = Finished(wrote, FALSE, "true")
                /\ lastSync' = TRUE
                /\ changeSinceSync' = FALSE
                /\ AfterReturn(run.trigger)
           ELSE /\ syncRuns' = [syncRuns EXCEPT ![s] = [wrote EXCEPT !.item = next]]
                /\ syncLast' = NoRun
                /\ UNCHANGED <<lastSync, changeSinceSync, syncInProgress, exited>>
  /\ smLast' = NoCall
  /\ UNCHANGED <<dbUp, useFallback, executions, envVars, otherVars, durableSet,
                 syncInterval, isShuttingDown, mcpVars>>

\* The write a call waits for comes back. A throw ends the call in its
\* catch with false. Otherwise the entry's flag is cleared and the walk goes
\* on to the next dirty entry, or ends with lastSync set and changeSinceSync
\* cleared.
SyncWriteDone(s, saveFails) ==
  /\ ~exited
  /\ syncRuns[s].pc = "writing"
  /\ LET run == syncRuns[s]
         it == SyncItems[run.item]
         entry == EntryOf(cacheTools, cacheConfigs, run.item)
         r == IF it.kind = "tool"
              THEN DbSaveToolDefinition(Store, Tool(entry.name, entry.rev), saveFails)
              ELSE DbUpdateConfiguration(Store, it.id, entry.value.v, entry.isEncrypted)
         tools == IF it.kind = "tool" /\ ~r.threw
                  THEN [cacheTools EXCEPT ![it.id].dirty = FALSE] ELSE cacheTools
         configs == IF it.kind = "config" /\ ~r.threw
                    THEN [cacheConfigs EXCEPT ![it.id].dirty = FALSE] ELSE cacheConfigs
         wrote == [run EXCEPT !.writes = Append(@, run.item)]
         next == NextDirty(tools, configs, run.item)
     IN /\ SetStore(r.st)
        /\ cacheTools' = tools
        /\ cacheConfigs' = configs
        /\ IF r.threw
           THEN /\ syncRuns' = [syncRuns EXCEPT ![s] = IdleRun]
                /\ syncLast' = Finished(run, FALSE, "false")
                /\ AfterReturn(run.trigger)
                /\ UNCHANGED <<lastSync, changeSinceSync>>
           ELSE IF next = 0
           THEN /\ syncRuns' = [syncRuns EXCEPT ![s] = IdleRun]
                /\ syncLast' = Finished(wrote, FALSE, "true")
                /\ lastSync' = TRUE
                /\ changeSinceSync' = FALSE
                /\ AfterReturn(run.trigger)
           ELSE /\ syncRuns' = [syncRuns EXCEPT ![s] = [wrote EXCEPT !.item = next]]
                /\ syncLast' = NoRun
                /\ UNCHANGED <<lastSync, changeSinceSync, syncInProgress, exited>>
  /\ smLast' = NoCall
  /\ UNCHANGED <<dbUp, useFallback, executions, envVars, otherVars, durableSet,
                 syncInterval, isShuttingDown, mcpVars>>

\* Between flushes the cache is changed through saveTool, given a new
\* revision of a tool, and setConfig, given a key to store encrypted.
SyncToolDefs == [name : SMToolNames, rev : {2}]

NextSync ==
  \/ \E s \in 1..MaxRuns, t \in Triggers : SyncStart(s, t)
  \/ \E s \in 1..MaxRuns, f \in BOOLEAN : SyncWriteDone(s, f)
  \/ \E d \in SyncToolDefs, f \in BOOLEAN : Quiet /\ SMSaveTool(d, f)
  \/ \E k \in ConfigKeys, v \in ConfigValues : Quiet /\ SMSetConfig(k, v, TRUE)
  \/ ~exited /\ StoreFlips

SpecSync == InitSM /\ [][NextSync]_vars

\* ======================================================================
\*  Properties of the POST /mcp/:provider handler (SpecMcp)
\* ======================================================================

CreatedByHandler == 1..Len(executions)
HasRecord(h) == h.kind \in {"durable", "fallback"}
WellFormed(cs) == \A k \in 1..Len(cs) : cs[k].argsOk

\* C1: the status of every ToolExecution record changes at most once, from
\* pending to exactly one of success / failure, and never returns to pending,
\* whatever sequence of calls its completion handle receives (including
\* complete(result) followed by complete(null, error) from the catch block).
C1_StatusChangesAtMostOnce ==
  [][\A k \in 1..Len(executions) :
       executions'[k].status # executions[k].status =>
         /\ executions[k].status = "pending"
         /\ executions'[k].status \in {"success", "failure"}]_vars

\* C2: every ToolExecution created while handling the request, the 'mcp'
\* record and each per-tool-call record, has reached success or failure by
\* the time the HTTP response is sent.
C2_NoRecordPendingAtResponse ==
  response.status # 0 =>
    \A k \in CreatedByHandler : executions[k].status \in {"success", "failure"}

\* C3: when one tool implementation of a batch throws, the batch is not
\* aborted: there is one result entry per tool call and the follow-up
\* provider call is still made.
C3_ThrowDoesNotAbortBatch ==
  (pc = "done" /\ toolThrew) =>
    /\ Len(results) = Len(calls)
    /\ providerCalls = 2

\* C4: a tool call with an unknown name yields {error: "Unknown tool: <name>"}
\* at the position of the call, the remaining calls of the batch are still
\* executed and the follow-up provider call is still made.
C4_UnknownToolKeepsBatch ==
  (pc = "done" /\ firstReply = "tool_use" /\ WellFormed(calls)) =>
    \A k \in 1..Len(calls) :
      calls[k].name \notin KnownTools =>
        /\ Len(results) = Len(calls)
        /\ results[k] = [pos |-> k, name |-> calls[k].name, kind |-> "unknown_tool"]
        /\ providerCalls = 2

\* C5: when the handler answers 500 {error: message}, the 'mcp' record it
\* created has been completed with failure, in the document and in its
\* store, and the completion precedes the response; no 500 of the request
\* leaves while the record's status is still pending.
C5_FailureCompletedBeforeError ==
  /\ (response.status = 500 /\ HasRecord(logger)) =>
       /\ executions[logger.rec].status = "failure"
       /\ trace[Len(trace)] = Event("respond", 500)
       /\ trace[Len(trace) - 1] = Event("complete", logger.rec)
  /\ (response = [status |-> 500, body |-> "error_json"] /\ HasRecord(logger)) =>
       executions[logger.rec].persisted = "failure"

\* C5 witness: the catch block has answered 500 {error: message} for a
\* request whose 'mcp' record lives in the durable store.
C5_Witness ==
  /\ response = [status |-> 500, body |-> "error_json"]
  /\ logger.kind = "durable"
  /\ providerCalls >= 1

\* C6: a request for a supported provider whose body has neither prompt nor
\* messages is answered 400 and no provider call is made.
C6_MissingBodyIs400 ==
  (pc = "done" /\ req.provider \in SupportedProviders /\ req.client /\ req.body = "none") =>
    /\ response.status = 400
    /\ providerCalls = 0

\* C7: a request makes exactly one provider call when the first reply does
\* not signal tool use, exactly two when it does, and never more than two.
C7_ProviderCallCount ==
  (pc = "done" /\ WellFormed(calls)) =>
    /\ providerCalls <= 2
    /\ (firstReply = "plain" => providerCalls = 1)
    /\ (firstReply = "tool_use" => providerCalls = 2)

\* C8: the events of one request occur in the order: pending 'mcp' record
\* written, first provider call, tool calls logged and executed (only on tool
\* use, each call logged before it is executed), follow-up call, completion of
\* the 'mcp' record, response. No record is completed before its pending
\* state was written and nothing follows the response.
Rank(e) ==
  CASE e[1] = "write_pending" -> 1
    [] e[1] = "provider_call" -> 2
    [] e[1] \in {"tool_log", "tool_exec"} -> 3
    [] e[1] = "followup_call" -> 4
    [] e[1] = "complete" -> 5
    [] e[1] = "respond" -> 6

Positions(kind) == {a \in 1..Len(trace) : trace[a][1] = kind}

C8_RequestOrder ==
  /\ \A a, b \in 1..Len(trace) : a < b => Rank(trace[a]) <= Rank(trace[b])
  /\ \A kind \in {"write_pending", "provider_call", "followup_call", "respond"} :
       Cardinality(Positions(kind)) <= 1
  /\ (Positions("tool_log") \cup Positions("tool_exec") \cup Positions("followup_call")) # {}
       => firstReply = "tool_use"
  /\ \A b \in Positions("tool_exec") :
       \E a \in Positions("tool_log") : a < b /\ trace[a][2] = trace[b][2]
  /\ \A b \in Positions("complete") :
       trace[b][2] # 0 =>
         \E a \in Positions("write_pending") : a < b /\ trace[a][2] = trace[b][2]
  /\ (response.status # 0) = (Positions("respond") # {})

\* C8 witness: a request that went through every stage: two tool calls
\* logged and executed, the follow-up call, the completion, the 200.
C8_Witness ==
  /\ pc = "done"
  /\ response.status = 200
  /\ Len(calls) = 2
  /\ Len(results) = 2
  /\ HasRecord(logger)
  /\ Len(trace) = 9

\* ======================================================================
\*  Properties of the StateManager (SpecSM)
\* ======================================================================
SMOps == {"getTool", "saveTool", "getConfig", "setConfig", "logExecution"}

\* C9: with the durable store unreachable, in fallback mode or not, none of
\* getTool, saveTool (given a definition with a name), getConfig, setConfig
\* and logExecution throws; each returns a value.
C9_NoThrowWhileUnreachable ==
  (/\ smLast.down
   /\ smLast.op \in SMOps
   /\ ~(smLast.op = "saveTool" /\ smLast.key = ""))
    => smLast.outcome = "return"

\* C9 happens: outside fallback mode, with the store down, the
\* DatabaseService call threw and the StateManager call still returned.
C9_Witness ==
  /\ smLast.down
  /\ ~useFallback
  /\ smLast.op \in SMOps
  /\ smLast.dbThrew
  /\ smLast.outcome = "return"

\* C10: once setConfig(key, v, true) has been written to the durable store,
\* a getConfig(key) made while that store is unreachable still returns
\* exactly v.
C10_EncryptedReadSurvivesOutage ==
  (/\ smLast.op = "getConfig"
   /\ smLast.decrypt
   /\ smLast.down
   /\ durableSet[smLast.key] # "none")
    => smLast.value = Str(durableSet[smLast.key])

\* ======================================================================
\*  Properties of saveStateToDb (SpecSync)
\* ======================================================================
\* C11: outside fallback mode a cached definition that saveTool accepted has
\* its dirty flag clear only once a write of it has reached the durable
\* store: a write that only reached the in-memory fallback never clears the
\* flag, so the next saveStateToDb still writes the definition.
C11_CleanMeansDurable ==
  ~useFallback =>
    \A n \in SMToolNames :
      (~IsNull(cacheTools[n]) /\ ~cacheTools[n].dirty)
        => dbTools[n] = Tool(n, cacheTools[n].rev)

Returned == syncLast'.result # "none"

\* The call of slot s returns in this step, having made its last write.
Returns12(s) == syncRuns[s].pc = "writing" /\ syncRuns'[s].pc = "idle"
LastWrites(s) == Append(syncRuns[s].writes, syncRuns[s].item)

C13_OneSyncAtATime == Cardinality(Running) <= 1


\* C17: getConfig(key, true) never hands the caller the stored
\* "<iv>:<cipher>" text of an encrypted configuration; when the value cannot
\* be decrypted or fetched the caller gets null.
C17_NeverCiphertext ==
  (smLast.op = "getConfig" /\ smLast.decrypt) => smLast.value.t # "cipher"

\* ====================================== the DatabaseService called directly
\* The service stays on the store it is backed by: the durable store,
\* connected and reachable, or the in-memory fallback store.
DbValues == {"sk-1", "sk-2"}

DbFrame ==
  UNCHANGED <<dbUp, useFallback, executions, envVars, keyVars, crypt, moreVars,
              smVars, mcpVars>>

\* updateConfiguration(key, v, encrypt).
DbUpdateConfigurationCall(key, v, enc) ==
  /\ LET r == DbUpdateConfiguration(Store, key, v, enc)
     IN /\ SetStore(r.st)
        /\ dbLast' = [op |-> "updateConfiguration", key |-> key, value |-> r.value,
                      set |-> [dbLast.set EXCEPT ![key] = v]]
  /\ DbFrame

\* getConfiguration(key, decrypt).
DbGetConfigurationCall(key, decrypt, garble) ==
  /\ LET r == DbGetConfiguration(Store, key, decrypt, garble)
     IN /\ SetStore(r.st)
        /\ dbLast' = [op |-> "getConfiguration", key |-> key, value |-> r.value,
                      set |-> dbLast.set, decrypt |-> decrypt]
  /\ DbFrame

\* The definitions saved: name and content always, category and enabled
\* given or left out.
DbToolNames == {"calculator", "web_search"}
DbCategories == {"web", "custom"}
Options == [category : DbCategories \cup {"none"}, enabledOnly : BOOLEAN]
DbToolDefs ==
  LET base == [t : {"tool"}, name : DbToolNames, rev : {1}]
      Extend(S, f, vals) ==
        S \cup {[g \in DOMAIN d \cup {f} |-> IF g = f THEN v ELSE d[g]] :
                  d \in S, v \in vals}
  IN Extend(Extend(base, "category", DbCategories), "enabled", BOOLEAN)

\* The record the backing store holds under a name, null when it holds none.
Held(name) ==
  IF useFallback THEN MapGet(fbTools, name) ELSE dbTools[name]

\* saveToolDefinition(def).
DbSaveToolDefinitionCall(def) ==
  /\ LET r == DbSaveToolDefinition(Store, def, FALSE)
     IN /\ SetStore(r.st)
        /\ dbLast' = [op |-> "saveToolDefinition", key |-> def.name, value |-> r.value,
                      set |-> dbLast.set, def |-> def, before |-> Held(def.name)]
  /\ DbFrame

\* getAllTools(options).
DbGetAllToolsCall(options) ==
  /\ LET r == DbGetAllTools(Store, options)
     IN /\ SetStore(r.st)
        /\ dbLast' = [op |-> "getAllTools", key |-> "none", value |-> r.value,
                      set |-> dbLast.set, options |-> options]
  /\ DbFrame

\* deleteToolDefinition(name).
DbDeleteToolDefinitionCall(name) ==
  /\ LET r == DbDeleteToolDefinition(Store, name)
     IN /\ SetStore(r.st)
        /\ dbLast' = [op |-> "deleteToolDefinition", key |-> name, value |-> r.value,
                      set |-> dbLast.set]
  /\ DbFrame

\* After initialize(): connected to a reachable store, or in fallback mode;
\* nothing saved yet.
InitDbDirect ==
  /\ InitDb
  /\ dbUp
  /\ isConnected = ~useFallback
  /\ dbTools = [n \in DbToolNames |-> Null]
  /\ dbConfigs = [k \in ConfigKeys |-> Null]
  /\ sysKeyRow = "none"
  /\ fbTools = << >>
  /\ fbConfigs = [k \in ConfigKeys |-> Null]
  /\ encryptionKeyCache = "none"
  /\ envKey = "none"
  /\ procEnv = [k \in ConfigKeys |-> "none"]
  /\ InitCache
  /\ pc = "idle"
  /\ req = [provider |-> "anthropic", body |-> "none", client |-> FALSE]
  /\ firstReply = "none"
  /\ calls = << >>
  /\ cursor = 1
  /\ logger = NoHandle
  /\ results = << >>
  /\ toolThrew = FALSE
  /\ providerCalls = 0
  /\ response = NoResponse
  /\ trace = << >>

NextDb ==
  \/ \E k \in ConfigKeys, v \in DbValues, e \in BOOLEAN : DbUpdateConfigurationCall(k, v, e)
  \/ \E k \in ConfigKeys, d \in BOOLEAN, g \in BOOLEAN : DbGetConfigurationCall(k, d, g)
  \/ \E d \in DbToolDefs : DbSaveToolDefinitionCall(d)
  \/ \E o \in Options : DbGetAllToolsCall(o)
  \/ \E n \in DbToolNames : DbDeleteToolDefinitionCall(n)

SpecDb == InitDbDirect /\ [][NextDb]_vars

\* ----------------------------- properties of the DatabaseService (SpecDb)
\* C18: on either store, getConfiguration(key, true) returns the string the
\* key was last updated to, and null for a key never updated.
C18_ReadsWhatWasWritten ==
  (dbLast.op = "getConfiguration" /\ dbLast.decrypt)
    => dbLast.value = IF dbLast.set[dbLast.key] = "none" THEN Null
                      ELSE Str(dbLast.set[dbLast.key])

\* The names of a list of definitions are in the order of a sort by name.
SortedByName(tools) ==
  \A i, j \in 1..Len(tools) :
    i < j => \E a, b \in 1..Len(SortedNames) :
               a < b /\ SortedNames[a] = tools[i].name /\ SortedNames[b] = tools[j].name

\* C19: on either store, getAllTools returns the definitions held that match
\* the options, sorted by name.
C19_SortedMatching ==
  dbLast.op = "getAllTools" =>
    /\ SortedByName(dbLast.value)
    /\ {dbLast.value[i] : i \in 1..Len(dbLast.value)}
         = {Held(n) : n \in {m \in DbToolNames :
                                ~IsNull(Held(m)) /\ Matches(Held(m), dbLast.options)}}

\* C20: on either store, saving a definition whose name is held updates the
\* fields the definition gives and keeps every other field of the record as
\* it was.
C20_SaveMerges ==
  (dbLast.op = "saveToolDefinition" /\ ~IsNull(dbLast.before)) =>
    /\ ~IsNull(Held(dbLast.key))
    /\ \A f \in DOMAIN dbLast.def :
         f \in DOMAIN Held(dbLast.key) /\ Held(dbLast.key)[f] = dbLast.def[f]
    /\ \A f \in DOMAIN dbLast.before \ DOMAIN dbLast.def :
         f \in DOMAIN Held(dbLast.key) /\ Held(dbLast.key)[f] = dbLast.before[f]

\* ============================================ encryption key, step by step
\* The operations that need the key, each awaiting getEncryptionKey, whose
\* own awaits (findOne, save) let the others run in between.
KeyUserKinds == {"preSave", "getDecryptedValue", "getByKey"}
EnvKeys == {"none", "env-key"}
StoredKey == "stored-key"

\* crypto.randomBytes(32) of the call of caller u, and the fallback key
\* derived from Date.now() in that call's catch.
GeneratedKey(u) == "generated-" \o ToString(u)
MachineKey(u) == "machine-" \o ToString(u)

KeyFrame ==
  UNCHANGED <<dbUp, useFallback, isConnected, executions, dbTools, dbConfigs,
              fbTools, fbConfigs, envVars, dbLast, crypt, moreVars, smVars, mcpVars>>

\* getEncryptionKey up to its first await: the environment's key is returned
\* at once, else the call is at findOne.
KeyCallBegun ==
  IF envKey # "none"
  THEN [pc |-> "resolved", key |-> envKey, generated |-> FALSE]
  ELSE [pc |-> "findOne", key |-> "none", generated |-> FALSE]

\* pre('save') and getDecryptedValue, lines 102-109 and 144-151: with no key
\* cached and no call pending, start the call and hold its promise; with a
\* call pending, await that one; else use the cached key. getByKey, lines
\* 225-227: with no key cached, start a call of its own.
KeyUserStart(u, kind) ==
  /\ keyUsers[u].pc = "idle"
  /\ LET guarded == kind # "getByKey"
         starts == /\ encryptionKeyCache = "none"
                   /\ guarded => encryptionKeyPromise = 0
         shares == guarded /\ ~starts /\ encryptionKeyPromise # 0
     IN /\ keyCalls' = IF starts THEN [keyCalls EXCEPT ![u] = KeyCallBegun]
                       ELSE keyCalls
        /\ encryptionKeyPromise' = IF starts /\ guarded THEN u
                                   ELSE encryptionKeyPromise
        /\ keyUsers' = [keyUsers EXCEPT ![u] =
             IF starts
             THEN [kind |-> kind, used |-> "none",
                   pc |-> IF guarded THEN "awaitOwn" ELSE "awaitByKey"]
             ELSE IF shares
             THEN [kind |-> kind, used |-> "none", pc |-> "awaitShared",
                   call |-> encryptionKeyPromise]
             ELSE [kind |-> kind, used |-> encryptionKeyCache, pc |-> "done"]]
  /\ UNCHANGED <<sysKeyRow, encryptionKeyCache>>
  /\ KeyFrame

\* Lines 49-58 and 75-81: findOne answers. The row's value is returned; with
\* no row a key is generated and the call goes on to save it; the store
\* failing, the catch returns the fallback key.
KeyCallFindOne(u) ==
  /\ keyCalls[u].pc = "findOne"
  /\ keyCalls' = [keyCalls EXCEPT ![u] =
       IF ~dbUp THEN [pc |-> "resolved", key |-> MachineKey(u), generated |-> FALSE]
       ELSE IF sysKeyRow # "none"
       THEN [pc |-> "resolved", key |-> sysKeyRow, generated |-> FALSE]
       ELSE [pc |-> "save", key |-> "none", generated |-> TRUE]]
  /\ UNCHANGED <<sysKeyRow, encryptionKeyCache, encryptionKeyPromise, keyUsers>>
  /\ KeyFrame

\* Lines 62-73: save answers. The row is written and the generated key
\* returned; the store failing, or the row existing by now (key is unique),
\* save rejects and the catch returns the fallback key.
KeyCallSave(u) ==
  /\ keyCalls[u].pc = "save"
  /\ IF dbUp /\ sysKeyRow = "none"
     THEN /\ sysKeyRow' = GeneratedKey(u)
          /\ keyCalls' = [keyCalls EXCEPT ![u] =
               [pc |-> "resolved", key |-> GeneratedKey(u), generated |-> TRUE]]
     ELSE /\ keyCalls' = [keyCalls EXCEPT ![u] =
               [pc |-> "resolved", key |-> MachineKey(u), generated |-> TRUE]]
          /\ UNCHANGED sysKeyRow
  /\ UNCHANGED <<encryptionKeyCache, encryptionKeyPromise, keyUsers>>
  /\ KeyFrame

\* The call a waiting caller awaits: its own, or the one the promise held.
AwaitedCall(u) ==
  IF keyUsers[u].pc = "awaitShared" THEN keyUsers[u].call ELSE u

\* The awaited call has resolved and the caller goes on: the key is cached
\* and used, and the caller that held the promise clears it.
KeyUserResume(u) ==
  /\ keyUsers[u].pc \in {"awaitOwn", "awaitShared", "awaitByKey"}
  /\ keyCalls[AwaitedCall(u)].pc = "resolved"
  /\ encryptionKeyCache' = keyCalls[AwaitedCall(u)].key
  /\ encryptionKeyPromise' =
       IF keyUsers[u].pc = "awaitOwn" THEN 0 ELSE encryptionKeyPromise
  /\ keyUsers' = [keyUsers EXCEPT ![u] =
       [kind |-> keyUsers[u].kind, pc |-> "done",
        used |-> keyCalls[AwaitedCall(u)].key]]
  /\ UNCHANGED <<sysKeyRow, keyCalls>>
  /\ KeyFrame

\* A process with the store connected, no key cached, the ENCRYPTION_KEY
\* variable set or not and the SYSTEM_ENCRYPTION_KEY row present or not.
InitKey ==
  /\ InitDb
  /\ isConnected /\ ~useFallback
  /\ envKey \in EnvKeys
  /\ procEnv = [k \in ConfigKeys |-> "none"]
  /\ dbTools = [n \in SMToolNames |-> Null]
  /\ dbConfigs = [k \in ConfigKeys |-> Null]
  /\ sysKeyRow \in {"none", StoredKey}
  /\ fbTools = << >>
  /\ fbConfigs = [k \in ConfigKeys |-> Null]
  /\ encryptionKeyCache = "none"
  /\ InitCache
  /\ pc = "idle"
  /\ req = [provider |-> "anthropic", body |-> "none", client |-> FALSE]
  /\ firstReply = "none"
  /\ calls = << >>
  /\ cursor = 1
  /\ logger = NoHandle
  /\ results = << >>
  /\ toolThrew = FALSE
  /\ providerCalls = 0
  /\ response = NoResponse
  /\ trace = << >>

NextKey ==
  \/ \E u \in 1..MaxKeyUsers, kind \in KeyUserKinds : KeyUserStart(u, kind)
  \/ \E u \in 1..MaxKeyUsers : KeyCallFindOne(u)
  \/ \E u \in 1..MaxKeyUsers : KeyCallSave(u)
  \/ \E u \in 1..MaxKeyUsers : KeyUserResume(u)
  \/ StoreFlips

SpecKey == InitKey /\ [][NextKey]_vars

\* ------------------------------------- properties of the key (SpecKey)
KeyCallsMade == {u \in 1..MaxKeyUsers : keyCalls[u].pc # "none"}
KeysGenerated == {u \in 1..MaxKeyUsers : keyCalls[u].generated}
KeysUsed == {keyUsers[u].used : u \in {w \in 1..MaxKeyUsers : keyUsers[w].pc = "done"}}

\* C14: whatever the interleaving of pre-save encryption, getDecryptedValue
\* and getByKey as first users of the key in one process, getEncryptionKey
\* is called once, at most one key is generated, and all of them use the
\* same key.
C14_OneSharedResolution ==
  /\ Cardinality(KeyCallsMade) <= 1
  /\ Cardinality(KeysGenerated) <= 1
  /\ Cardinality(KeysUsed) <= 1

\* C15: every key getEncryptionKey has returned is the environment's key or
\* the value of the SYSTEM_ENCRYPTION_KEY row, and at most one key was ever
\* generated.
C15_KeyIsEnvOrRow ==
  /\ \A u \in 1..MaxKeyUsers :
       keyCalls[u].pc = "resolved"
         => \/ envKey # "none" /\ keyCalls[u].key = envKey
            \/ sysKeyRow # "none" /\ keyCalls[u].key = sysKeyRow
  /\ Cardinality(KeysGenerated) <= 1

\* ================================================= encrypt and decrypt
\* The cipher of pre('save') and getDecryptedValue in small: bytes are
\* 0..Modulus-1 and a block is BlockSize bytes. The sha256 digest of a key
\* is an amount by which the block cipher shifts each byte, a different one
\* for each key; CBC adds the previous ciphertext block (first the iv) before
\* the shift; the last block is padded as PKCS#7 does. The text stored is
\* hex(iv) ":" hex(ciphertext).
Modulus == 4
BlockSize == 2
Bytes == 0..(Modulus - 1)
CryptKeys == {"key-a", "key-b"}
KeyDigest(k) == IF k = "key-a" THEN 1 ELSE 2
Plaintexts == SeqsUpTo(Bytes, MaxPlain)
IVs == [1..BlockSize -> Bytes]
Colon == 16

\* cipher.final: pad to a whole number of blocks, a full block when the
\* length already is one.
Pad(bytes) ==
  LET p == BlockSize - (Len(bytes) % BlockSize)
  IN bytes \o [i \in 1..p |-> p]

\* decipher.final: the last byte says how many bytes of padding to strip;
\* padding that is not well formed throws.
Unpad_KeepsPadding(bytes) ==
  IF Len(bytes) = 0 \/ Len(bytes) % BlockSize # 0 THEN Null
  ELSE LET q == bytes[Len(bytes)]
       IN IF q \in 1..BlockSize
             /\ \A i \in (Len(bytes) - q + 1)..Len(bytes) : bytes[i] = q
          THEN Str(bytes)
          ELSE Null
Unpad(bytes) ==
  IF Len(bytes) = 0 \/ Len(bytes) % BlockSize # 0 THEN Null
  ELSE LET q == bytes[Len(bytes)]
       IN IF q \in 1..BlockSize
             /\ \A i \in (Len(bytes) - q + 1)..Len(bytes) : bytes[i] = q
          THEN Str(SubSeq(bytes, 1, Len(bytes) - q))
          ELSE Null

\* aes-256-cbc under the digest d, block by block.
CbcEncrypt(bytes, iv, d) ==
  LET c[j \in 1..Len(bytes)] ==
        (bytes[j] + (IF j <= BlockSize THEN iv[j] ELSE c[j - BlockSize]) + d) % Modulus
  IN [j \in 1..Len(bytes) |-> c[j]]
CbcDecrypt(bytes, iv, d) ==
  [j \in 1..Len(bytes) |->
     (bytes[j] + 2 * Modulus
        - (IF j <= BlockSize THEN iv[j] ELSE bytes[j - BlockSize]) - d) % Modulus]

\* toString('hex') and Buffer.from(text, 'hex').
Hex(bytes) ==
  [i \in 1..(2 * Len(bytes)) |->
     IF i % 2 = 1 THEN bytes[(i + 1) \div 2] \div 16 ELSE bytes[i \div 2] % 16]
Unhex(digits) ==
  [i \in 1..(Len(digits) \div 2) |-> digits[2 * i - 1] * 16 + digits[2 * i]]

\* Lines 113-125: the text pre('save') stores for value v under key k.
Encrypt(v, k, iv) ==
  Hex(iv) \o <<Colon>> \o Hex(CbcEncrypt(Pad(v), iv, KeyDigest(k)))

\* Lines 155-176: split at ':', read the iv and the data, decipher; anything
\* thrown is caught and null returned.
Decrypt(text, k) ==
  LET colons == {i \in 1..Len(text) : text[i] = Colon}
  IN IF Cardinality(colons) # 1 THEN Null
     ELSE LET at == CHOOSE i \in colons : TRUE
              iv == Unhex(SubSeq(text, 1, at - 1))
              data == Unhex(SubSeq(text, at + 1, Len(text)))
          IN IF Len(iv) # BlockSize THEN Null
             ELSE Unpad(CbcDecrypt(data, iv, KeyDigest(k)))

CryptFrame ==
  UNCHANGED <<dbUp, useFallback, isConnected, executions, storeVars, envVars,
              keyVars, dbLast, moreVars, smVars, mcpVars>>

\* pre('save') encrypts the value under the key, with a fresh iv.
EncryptValue ==
  /\ crypt.pc = "plain"
  /\ crypt' = [crypt EXCEPT !.pc = "stored",
                            !.text = Encrypt(crypt.v, crypt.k, crypt.iv)]
  /\ CryptFrame

\* getDecryptedValue reads the stored text with the key k2 cached by then.
DecryptValue(k2) ==
  /\ crypt.pc = "stored"
  /\ crypt' = [crypt EXCEPT !.pc = "read", !.k2 = k2,
                            !.out = Decrypt(crypt.text, k2)]
  /\ CryptFrame

\* Any plaintext, key and iv.
InitCrypt ==
  /\ crypt \in [pc : {"plain"}, v : Plaintexts, k : CryptKeys, iv : IVs,
               text : {<< >>}, k2 : {"none"}, out : {Null}]
  /\ dbUp = TRUE /\ useFallback = FALSE /\ isConnected = TRUE
  /\ executions = << >>
  /\ encryptionKeyPromise = 0
  /\ keyCalls = [u \in 1..MaxKeyUsers |-> NoKeyCall]
  /\ keyUsers = [u \in 1..MaxKeyUsers |-> NoKeyUser]
  /\ dbLast = NoDbCall
  /\ InitMore
  /\ EmptyStores
  /\ envKey = "none"
  /\ procEnv = [k \in ConfigKeys |-> "none"]
  /\ InitCache
  /\ pc = "idle"
  /\ req = [provider |-> "anthropic", body |-> "none", client |-> FALSE]
  /\ firstReply = "none"
  /\ calls = << >>
  /\ cursor = 1
  /\ logger = NoHandle
  /\ results = << >>
  /\ toolThrew = FALSE
  /\ providerCalls = 0
  /\ response = NoResponse
  /\ trace = << >>

NextCrypt ==
  \/ EncryptValue
  \/ \E k2 \in CryptKeys : DecryptValue(k2)

SpecCrypt == InitCrypt /\ [][NextCrypt]_vars

\* C16: what was encrypted under k decrypts under k to the plaintext, and
\* under another key never to the plaintext: it fails or gives another value.
C16_RoundTrip ==
  crypt.pc = "read" =>
    IF crypt.k2 = crypt.k THEN crypt.out = Str(crypt.v)
    ELSE crypt.out # Str(crypt.v)

\* C16 happens: a plaintext longer than a block was encrypted and read back
\* under its key.
C16_Witness ==
  /\ crypt.pc = "read"
  /\ crypt.k2 = crypt.k
  /\ Len(crypt.v) > BlockSize

\* ============================== the tool registry under concurrent writers
\* saveToolDefinition (called directly, through saveTool, or once for each
\* tool of a backup by restoreFromBackup) and migrateToolDefinitions, each
\* step by step: what they await lets the other writers run in between. The
\* collection is the list of its documents, so that two of one name could be
\* told apart if they came to be.
RegKinds == {"save", "restore", "migrate"}
RegNames(docs) == {docs[i].name : i \in 1..Len(docs)}

\* An insert into the collection: name is declared unique, and the index
\* rejects a document whose name another document has.
Insert_NoUniqueIndex(docs, doc) == [ok |-> TRUE, docs |-> Append(docs, doc)]
Insert(docs, doc) ==
  IF doc.name \in RegNames(docs) THEN [ok |-> FALSE, docs |-> docs]
  ELSE [ok |-> TRUE, docs |-> Append(docs, doc)]

RegFrame ==
  UNCHANGED <<dbUp, useFallback, isConnected, executions, dbTools, dbConfigs,
              sysKeyRow, fbConfigs, encryptionKeyCache, envVars, keyVars, dbLast,
              crypt, fbLogVars, connVars, availVars, bkVars, lateVars, smVars, mcpVars>>

\* A writer begins: a save of one definition, a restore of a backup's tools
\* in their order, or the seeding of the built-in tools.
RegStart(w, kind, names) ==
  /\ regOps[w].pc = "idle"
  /\ names # << >>
  /\ kind = "save" => Len(names) = 1
  /\ kind = "migrate" => names = NamesOf(DbToolNames)
  /\ regOps' = [regOps EXCEPT ![w] =
       [kind |-> kind, pc |-> IF kind = "migrate" THEN "find" ELSE "findOne",
        todo |-> names, known |-> {}, found |-> 0, outcome |-> "none"]]
  /\ UNCHANGED <<regDocs, fbTools>>
  /\ RegFrame

\* The writer ends, with the outcome given.
RegEnd(op, outcome) ==
  [NoRegOp EXCEPT !.kind = op.kind, !.pc = "done", !.outcome = outcome]

\* The writer is through with the first name of its list: on to the next,
\* which the seeding skips when the database had it at the start.
RegAdvance(op) ==
  LET Unknown(n) == n \notin op.known
      rest == IF op.kind = "migrate" THEN SelectSeq(Tail(op.todo), Unknown)
              ELSE Tail(op.todo)
  IN IF rest = << >>
     THEN RegEnd(op, "ok")
     ELSE [op EXCEPT !.pc = IF op.kind = "migrate" THEN "create" ELSE "findOne",
                     !.todo = rest, !.found = 0]

\* migrateToolDefinitions, line 16-17: find({}) answers with the names the
\* database has; the store failing, the catch returns false.
RegFind(w) ==
  /\ regOps[w].pc = "find"
  /\ regOps' = [regOps EXCEPT ![w] =
       IF ~dbUp THEN RegEnd(@, "false")
       ELSE LET Unknown(n) == n \notin RegNames(regDocs)
                todo == SelectSeq(@.todo, Unknown)
            IN IF todo = << >> THEN RegEnd(@, "ok")
               ELSE [@ EXCEPT !.pc = "create", !.todo = todo,
                              !.known = RegNames(regDocs)]]
  /\ UNCHANGED <<regDocs, fbTools>>
  /\ RegFrame

\* saveToolDefinition, line 362: findOne answers with the document of that
\* name or none; the store failing, the catch saves to the fallback store.
RegFindOne(w) ==
  /\ regOps[w].pc = "findOne"
  /\ LET name == Head(regOps[w].todo)
     IN IF ~dbUp
        THEN /\ fbTools' = MapSet(fbTools, Tool(name, 1))
             /\ regOps' = [regOps EXCEPT ![w] = RegAdvance(@)]
        ELSE /\ regOps' = [regOps EXCEPT ![w] =
                  IF name \in RegNames(regDocs)
                  THEN [@ EXCEPT !.pc = "save",
                                 !.found = CHOOSE i \in 1..Len(regDocs) :
                                             regDocs[i].name = name]
                  ELSE [@ EXCEPT !.pc = "create"]]
             /\ UNCHANGED fbTools
  /\ UNCHANGED regDocs
  /\ RegFrame

\* saveToolDefinition, line 366-367: existingTool.save() answers; a
\* rejection is not caught here and ends the save, and the restore with it.
RegSave(w) ==
  /\ regOps[w].pc = "save"
  /\ IF ~dbUp
     THEN /\ regOps' = [regOps EXCEPT ![w] = RegEnd(@, "rejected")]
          /\ UNCHANGED regDocs
     ELSE /\ regDocs' = [regDocs EXCEPT ![regOps[w].found] =
                           Assign(@, Tool(Head(regOps[w].todo), 1))]
          /\ regOps' = [regOps EXCEPT ![w] = RegAdvance(@)]
  /\ UNCHANGED fbTools
  /\ RegFrame

\* ToolDefinition.create answers (saveToolDefinition line 370,
\* migrateToolDefinitions line 43): the document is inserted, or the insert
\* is rejected, which ends the writer.
RegCreate(w) ==
  /\ regOps[w].pc = "create"
  /\ LET r == Insert(regDocs, Tool(Head(regOps[w].todo), 1))
     IN IF ~dbUp
        THEN /\ regOps' = [regOps EXCEPT ![w] = RegEnd(@, "rejected")]
             /\ UNCHANGED regDocs
        ELSE IF r.ok
        THEN /\ regDocs' = r.docs
             /\ regOps' = [regOps EXCEPT ![w] = RegAdvance(@)]
        ELSE /\ regOps' = [regOps EXCEPT ![w] = RegEnd(@, "duplicate")]
             /\ UNCHANGED regDocs
  /\ UNCHANGED fbTools
  /\ RegFrame

\* Connected to a reachable store, the collection empty.
InitReg ==
  /\ InitDbDirect
  /\ ~useFallback

NextReg ==
  \/ \E w \in 1..MaxWriters, kind \in RegKinds,
        names \in SeqsUpTo(DbToolNames, 2) : RegStart(w, kind, names)
  \/ \E w \in 1..MaxWriters : RegFind(w)
  \/ \E w \in 1..MaxWriters : RegFindOne(w)
  \/ \E w \in 1..MaxWriters : RegSave(w)
  \/ \E w \in 1..MaxWriters : RegCreate(w)
  \/ StoreFlips

SpecReg == InitReg /\ [][NextReg]_vars

\* C21: whatever the interleaving of seeding, saves and restores, two saves
\* of one new name at once included, no two tool definitions of the registry
\* have the same name.
C21_UniqueNames ==
  /\ \A i, j \in 1..Len(regDocs) : i # j => regDocs[i].name # regDocs[j].name
  /\ \A i, j \in 1..Len(fbTools) : i # j => fbTools[i].name # fbTools[j].name

\* C21 happens: two writers found no document of a name and both went on to
\* create it; the second insert was rejected.
C21_Witness ==
  \E w \in 1..MaxWriters :
    /\ regOps[w].pc = "done"
    /\ regOps[w].outcome = "duplicate"
    /\ regOps[w].kind = "save"

\* ======================================================= deleting a tool
\* The StateManager with tools saved, looked up and deleted.
NextDel ==
  \/ \E n \in SMToolNames : SMDeleteTool(n)
  \/ \E n \in SMToolNames : SMGetTool(n)
  \/ \E d \in SMToolDefs, f \in BOOLEAN : SMSaveTool(d, f)
  \/ StoreFlips

SpecDel == InitSM /\ [][NextDel]_vars

\* C22: deleteTool reports success exactly when a tool of that name was held,
\* by the cache or by a store; for a name held nowhere it reports not found.
C22_DeleteReportsExistence ==
  smLast.op = "deleteTool" => (smLast.value = Bool(TRUE) <=> smLast.existed)

\* ================================== the execution list of the fallback store
\* InMemoryStore.logToolExecution, lines 98-103: push the new execution and,
\* the list being longer than the cap then, shift the first one out.
FallbackCap == 100
PushExecution_EvictsNewest(list, execution) ==
  LET pushed == Append(list, execution)
  IN IF Len(pushed) > FallbackCap THEN SubSeq(pushed, 1, Len(pushed) - 1) ELSE pushed
PushExecution(list, execution) ==
  LET pushed == Append(list, execution)
  IN IF Len(pushed) > FallbackCap THEN Tail(pushed) ELSE pushed

\* logToolExecution in fallback mode: the executions are numbered as created.
FbLogToolExecution ==
  /\ fbLogged < MaxFbLogged
  /\ fbLogged' = fbLogged + 1
  /\ fbExecutions' = PushExecution(fbExecutions, fbLogged + 1)
  /\ UNCHANGED <<dbUp, useFallback, isConnected, executions, storeVars, envVars,
                 keyVars, dbLast, crypt, regVars, connVars, availVars, bkVars, lateVars, smVars, mcpVars>>

InitFbLog ==
  /\ InitDbDirect
  /\ useFallback

NextFbLog == FbLogToolExecution

SpecFbLog == InitFbLog /\ [][NextFbLog]_vars

\* C23: the list never has more than 100 entries and is always the latest
\* min(n, 100) of the n executions logged, in the order they were created.
C23_LatestHundredInOrder ==
  /\ Len(fbExecutions) <= 100
  /\ Len(fbExecutions) = IF fbLogged < 100 THEN fbLogged ELSE 100
  /\ \A i \in 1..Len(fbExecutions) :
       fbExecutions[i] = fbLogged - Len(fbExecutions) + i

\* C23 happens: more than 100 executions were logged, so some were evicted.
C23_Witness == fbLogged > 100 /\ Len(fbExecutions) = 100

\* ================================================================ connectDB
\* Each invocation of connectDB step by step: mongoose.connect is awaited,
\* then the backoff timer; the counter of attempts and the connected flag
\* belong to the module and are shared by the invocations. Times are in ms.
MAX_RECONNECT_ATTEMPTS == 5
Min(a, b) == IF a < b THEN a ELSE b

\* Line 66: the wait before the next attempt, from the counter as it stands.
Delay(attempts) == Min(1000 * 2 ^ attempts, 10000)

ConnRest ==
  UNCHANGED <<useFallback, isConnected, executions, storeVars, envVars,
              keyVars, dbLast, crypt, regVars, fbLogVars, availVars, bkVars, lateVars, smVars, mcpVars>>

ConnFrame ==
  /\ UNCHANGED dbUp
  /\ ConnRest

\* Lines 31-42, also after a wait (line 71): connected already, return; else
\* count the attempt and start connecting.
ConnEnter(c) ==
  /\ IF mongoConnected
     THEN /\ connCalls' = [connCalls EXCEPT ![c].pc = "returned"]
          /\ UNCHANGED connectionAttempts
     ELSE /\ connectionAttempts' = connectionAttempts + 1
          /\ connCalls' = [connCalls EXCEPT ![c].pc = "connecting",
                                            ![c].attempts = @ + 1]
  /\ UNCHANGED mongoConnected
  /\ ConnFrame

\* connectDB is invoked: by initialize, by ensureConnection, by the timer of
\* handleDisconnect.
ConnStart(c) ==
  /\ connCalls[c].pc = "idle"
  /\ ConnEnter(c)

\* The backoff timer fires and connectDB calls itself.
ConnRetry(c) ==
  /\ connCalls[c].pc = "waiting"
  /\ ConnEnter(c)

\* Lines 44-72, the limit tested with > in place of >=.
ConnAttemptDone_OneMore(c) ==
  /\ connCalls[c].pc = "connecting"
  /\ IF dbUp
     THEN /\ mongoConnected' = TRUE
          /\ connectionAttempts' = 0
          /\ connCalls' = [connCalls EXCEPT ![c].pc = "returned"]
     ELSE /\ connCalls' = [connCalls EXCEPT ![c] =
               IF connectionAttempts > MAX_RECONNECT_ATTEMPTS
               THEN [@ EXCEPT !.pc = "thrown"]
               ELSE [@ EXCEPT !.pc = "waiting",
                              !.waits = Append(@, Delay(connectionAttempts))]]
          /\ UNCHANGED <<mongoConnected, connectionAttempts>>
  /\ ConnFrame

\* Lines 44-72: mongoose.connect answers. Connected: set the flag, reset the
\* counter, return. Failed: throw when the counter has reached the limit,
\* else wait Delay and try again.
ConnAttemptDone(c) ==
  /\ connCalls[c].pc = "connecting"
  /\ IF dbUp
     THEN /\ mongoConnected' = TRUE
          /\ connectionAttempts' = 0
          /\ connCalls' = [connCalls EXCEPT ![c].pc = "returned"]
     ELSE /\ connCalls' = [connCalls EXCEPT ![c] =
               IF connectionAttempts >= MAX_RECONNECT_ATTEMPTS
               THEN [@ EXCEPT !.pc = "thrown"]
               ELSE [@ EXCEPT !.pc = "waiting",
                              !.waits = Append(@, Delay(connectionAttempts))]]
          /\ UNCHANGED <<mongoConnected, connectionAttempts>>
  /\ ConnFrame

\* handleDisconnect, line 79: the connection is lost and the flag cleared (the
\* reconnect its timer makes is one of the invocations).
HandleDisconnect ==
  /\ mongoConnected /\ ~dbUp
  /\ mongoConnected' = FALSE
  /\ UNCHANGED <<connectionAttempts, connCalls>>
  /\ ConnFrame

\* The server becomes unreachable and stays so.
ServerLost ==
  /\ dbUp
  /\ dbUp' = FALSE
  /\ UNCHANGED connVars
  /\ ConnRest

\* The server is reachable or not when the first invocation is made; the
\* service has not been initialized.
InitConn ==
  /\ InitMcp
  /\ ~useFallback /\ ~isConnected

NextConn ==
  \/ \E c \in 1..MaxConnCalls : ConnStart(c)
  \/ \E c \in 1..MaxConnCalls : ConnAttemptDone(c)
  \/ \E c \in 1..MaxConnCalls : ConnRetry(c)
  \/ HandleDisconnect
  \/ ServerLost

SpecConn == InitConn /\ [][NextConn]_vars

\* mongoose.connect settles within serverSelectionTimeoutMS and a timer set
\* fires: an invocation under way is not left waiting for ever.
SpecConnLive ==
  /\ SpecConn
  /\ \A c \in 1..MaxConnCalls :
       WF_vars(ConnAttemptDone(c)) /\ WF_vars(ConnRetry(c))

\* C24: while the server stays unreachable, every invocation of connectDB,
\* made alone, after another gave up or overlapping another, makes at most
\* 5 attempts and ends by throwing.
C24_ConnectGivesUp ==
  ([]~dbUp) =>
    /\ [](\A c \in 1..MaxConnCalls : connCalls[c].attempts <= MAX_RECONNECT_ATTEMPTS)
    /\ \A c \in 1..MaxConnCalls :
         (connCalls[c].pc # "idle") ~> (connCalls[c].pc = "thrown")

\* C24 happens: an invocation made its fifth attempt and threw, and another
\* made after it threw as well.
C24_Witness ==
  \E c, d \in 1..MaxConnCalls :
    /\ connCalls[c].pc = "thrown" /\ connCalls[c].attempts = 5
    /\ connCalls[d].pc = "thrown" /\ connCalls[d].attempts = 1

\* C25: the waits of an invocation after its failed attempts 1, 2, 3, 4 are
\* 1s, 2s, 4s, 8s, and no wait is longer than 10s.
C25_BackoffFromOneSecond ==
  \A c \in 1..MaxConnCalls :
    \A k \in 1..Len(connCalls[c].waits) :
      /\ connCalls[c].waits[k] <= 10000
      /\ k <= 4 => connCalls[c].waits[k] = 1000 * 2 ^ (k - 1)

\* ===================================================== GET /tools/available
\* The handler of tools-available.js over a catalogue of three tools: the
\* store's getAllTools, the search and provider filters, the pagination, the
\* response in the format asked for. Text that is searched is a sequence of
\* characters; query parameters are the strings the query parser hands over.
MaxLimit == 2
MaxOffset == 1
AvToolNames == {"calculator", "generate_image", "web_search"}

Num(n) == [t |-> "number", n |-> n]
Arr(items) == [t |-> "array", items |-> items]
Undefined == [t |-> "undefined"]

\* String.prototype.toLowerCase and includes.
Lower(c) ==
  CASE c = "A" -> "a" [] c = "B" -> "b" [] c = "E" -> "e" [] c = "N" -> "n"
    [] c = "S" -> "s" [] c = "W" -> "w" [] OTHER -> c
toLowerCase(text) == [i \in 1..Len(text) |-> Lower(text[i])]
includes(text, term) ==
  \E i \in 0..(Len(text) - Len(term)) : SubSeq(text, i + 1, i + Len(term)) = term

\* The characters of the names and of the provider names.
NameText(name) ==
  CASE name = "calculator" -> <<"c", "a", "l", "c">>
    [] name = "generate_image" -> <<"g", "e", "n">>
    [] OTHER -> <<"w", "e", "b">>
LowerWord(word) == IF word = "OpenAI" THEN "openai" ELSE word

\* parseInt(s, 10) of a string of decimal digits.
ParseInt(s) == CHOOSE n \in 0..(MaxLimit + MaxOffset + 1) : ToString(n) = s

\* The catalogue. Registered through POST /admin/tools, which asks of a
\* description only that it is truthy, the fallback store keeps what it is
\* given; the schema of the durable store keeps strings only.
AvCalculator(description) ==
  [t |-> "tool", name |-> "calculator", rev |-> 1, category |-> "utility",
   enabled |-> TRUE, description |-> description]
AvGenerateImage(enabled) ==
  [t |-> "tool", name |-> "generate_image", rev |-> 1, category |-> "image",
   enabled |-> enabled, description |-> Str(<<"A", "r", "t">>), provider |-> "OpenAI"]
AvWebSearch ==
  [t |-> "tool", name |-> "web_search", rev |-> 1, category |-> "web",
   enabled |-> TRUE, description |-> Str(<<"W", "E", "B">>),
   tags |-> << <<"n", "e", "t">> >>, metadata |-> [provider |-> "google"]]

\* What a store may hold under each name.
AvHeld(name, strict) ==
  CASE name = "calculator" ->
         {Null, AvCalculator(Str(<<"S", "u", "N">>))}
           \cup (IF strict THEN {} ELSE {AvCalculator(Num(5))})
    [] name = "generate_image" -> {AvGenerateImage(TRUE), AvGenerateImage(FALSE)}
    [] OTHER -> {AvWebSearch}

\* The requests.
AvSearches == {Undefined, Str(<<"E">>), Str(<<"n">>),
               Arr(<<Str(<<"E">>), Str(<<"n">>)>>)}
AvQueries ==
  [format : {"none", "json", "yaml", "table", "html", "bogus"},
   category : {"none", "image", "bogus"},
   enabled : {"true", "false"},
   search : AvSearches,
   provider : {"none", "openai"},
   limit : {"none"} \cup {ToString(n) : n \in 0..MaxLimit},
   offset : {ToString(n) : n \in 0..MaxOffset}]

\* Lines 36-43: which tools the search keeps, and whether it throws.
SearchTool(tool, searchTerm) ==
  IF includes(toLowerCase(NameText(tool.name)), searchTerm) THEN "yes"
  ELSE IF tool.description.t # "str" THEN "throws"
  ELSE IF includes(toLowerCase(tool.description.v), searchTerm) THEN "yes"
  ELSE IF /\ "tags" \in DOMAIN tool
          /\ \E i \in 1..Len(tool.tags) : includes(toLowerCase(tool.tags[i]), searchTerm)
       THEN "yes"
       ELSE "no"

Truthy(v) == v.t # "undefined" /\ ~(v.t = "str" /\ v.v = << >>)

SearchFilter(allTools, search) ==
  IF ~Truthy(search) THEN [threw |-> FALSE, tools |-> allTools]
  ELSE IF search.t # "str" THEN [threw |-> TRUE, tools |-> << >>]
  ELSE LET searchTerm == toLowerCase(search.v)
           Keep(tool) == SearchTool(tool, searchTerm) = "yes"
       IN IF \E i \in 1..Len(allTools) : SearchTool(allTools[i], searchTerm) = "throws"
          THEN [threw |-> TRUE, tools |-> << >>]
          ELSE [threw |-> FALSE, tools |-> SelectSeq(allTools, Keep)]

\* Lines 46-58 and 72-80, 117: the provider of a tool.
ProviderOf(tool) ==
  IF "provider" \in DOMAIN tool THEN tool.provider
  ELSE IF "metadata" \in DOMAIN tool /\ "provider" \in DOMAIN tool.metadata
       THEN tool.metadata.provider
       ELSE "internal"

ProviderFilter(allTools, provider) ==
  LET Keep(tool) ==
        /\ ProviderOf(tool) # "internal"
        /\ LowerWord(ProviderOf(tool)) = LowerWord(provider)
  IN IF provider = "none" THEN allTools ELSE SelectSeq(allTools, Keep)

\* Lines 61-66, with the start of the slice in place of its end.
Paginate_FromStart(allTools, limit, offset) ==
  IF limit = "none" THEN allTools
  ELSE SubSeq(allTools, 1, Min(ParseInt(limit), Len(allTools)))

\* Lines 61-66: slice(offsetNum, offsetNum + limitNum) when a limit is given.
Paginate(allTools, limit, offset) ==
  IF limit = "none" THEN allTools
  ELSE SubSeq(allTools, ParseInt(offset) + 1,
              Min(ParseInt(offset) + ParseInt(limit), Len(allTools)))

\* [...new Set(list)]: the values in the order of their first occurrence.
RECURSIVE Distinct(_)
Distinct(list) ==
  IF list = << >> THEN << >>
  ELSE LET h == Head(list)
           Other(x) == x # h
       IN <<h>> \o Distinct(SelectSeq(Tail(list), Other))

\* Lines 83-131: a tool as the response shows it.
FormatTool(tool) ==
  [name |-> tool.name, description |-> tool.description,
   category |-> tool.category, version |-> "1.0.0",
   provider |-> ProviderOf(tool), enabled |-> tool.enabled]

\* Lines 134-145.
AvBody(allTools, formattedTools, q) ==
  [success |-> TRUE,
   count |-> Len(formattedTools),
   metadata |->
     [categories |-> Distinct([i \in 1..Len(allTools) |-> allTools[i].category]),
      providers |-> Distinct([i \in 1..Len(allTools) |-> ProviderOf(allTools[i])]),
      totalCount |-> Len(allTools),
      offset |-> ParseInt(q.offset),
      limit |-> IF q.limit # "none" THEN ParseInt(q.limit) ELSE Len(allTools)],
   tools |-> formattedTools]

\* Lines 148-195, an unknown format answered as a table.
Send_UnknownAsTable(format, allTools, formattedTools, q) ==
  LET reply == AvBody(allTools, formattedTools, q)
      names == [i \in 1..Len(formattedTools) |-> formattedTools[i].name]
  IN CASE format = "yaml" -> [contentType |-> "text/yaml", body |-> [dump |-> reply]]
       [] format = "html" ->
            [contentType |-> "text/html",
             body |-> [html |-> names, total |-> Len(allTools)]]
       [] format = "json" -> [contentType |-> "application/json", body |-> reply]
       [] OTHER -> [contentType |-> "text/plain", body |-> [table |-> names]]

\* Lines 148-195: the body and its Content-Type by format.
Send(format, allTools, formattedTools, q) ==
  LET reply == AvBody(allTools, formattedTools, q)
      names == [i \in 1..Len(formattedTools) |-> formattedTools[i].name]
  IN CASE format = "yaml" -> [contentType |-> "text/yaml", body |-> [dump |-> reply]]
       [] format = "table" -> [contentType |-> "text/plain", body |-> [table |-> names]]
       [] format = "html" ->
            [contentType |-> "text/html",
             body |-> [html |-> names, total |-> Len(allTools)]]
       [] OTHER -> [contentType |-> "application/json", body |-> reply]

\* Lines 196-201.
AvError(storeThrew) ==
  [status |-> 500, contentType |-> "application/json", storeThrew |-> storeThrew,
   body |-> [success |-> FALSE, error |-> "message"]]

\* The handler, lines 12-203.
ToolsAvailable(st, q) ==
  LET format == IF q.format = "none" THEN "json" ELSE q.format
      options == [category |-> q.category, enabledOnly |-> q.enabled = "true"]
      r == DbGetAllTools(st, options)
      searched == SearchFilter(r.value, q.search)
      allTools == ProviderFilter(searched.tools, q.provider)
      paginatedTools == Paginate(allTools, q.limit, q.offset)
      formattedTools == [i \in 1..Len(paginatedTools) |-> FormatTool(paginatedTools[i])]
      sent == Send(format, allTools, formattedTools, q)
  IN [st |-> r.st,
      res |-> IF r.threw THEN AvError(TRUE)
              ELSE IF searched.threw THEN AvError(FALSE)
              ELSE [status |-> 200, contentType |-> sent.contentType,
                    storeThrew |-> FALSE, body |-> sent.body]]

AvailFrame ==
  UNCHANGED <<dbUp, useFallback, executions, envVars, keyVars, dbLast, crypt,
              regVars, fbLogVars, connVars, bkVars, lateVars, smVars, mcpVars>>

\* GET /tools/available with the query q.
GetToolsAvailable(q) ==
  /\ avRes = NoAvRes
  /\ LET a == ToolsAvailable(Store, q)
     IN /\ SetStore(a.st)
        /\ avReq' = q
        /\ avRes' = a.res
  /\ AvailFrame

\* The catalogue when the request arrives: in the fallback store in the order
\* the tools were saved, or in the durable store, which is reachable or not.
InitAvail ==
  /\ InitDb
  /\ isConnected = ~useFallback
  /\ useFallback => ~dbUp
  /\ \E held \in [AvToolNames -> UNION {AvHeld(n, FALSE) : n \in AvToolNames}] :
       /\ \A n \in AvToolNames : held[n] \in AvHeld(n, ~useFallback)
       /\ LET there == {n \in AvToolNames : ~IsNull(held[n])}
              sorted == [i \in 1..Len(NamesOf(there)) |-> held[NamesOf(there)[i]]]
              reversed == [i \in 1..Len(sorted) |-> sorted[Len(sorted) + 1 - i]]
          IN IF useFallback
             THEN /\ fbTools \in {sorted, reversed}
                  /\ dbTools = [n \in AvToolNames |-> Null]
             ELSE /\ fbTools = << >>
                  /\ dbTools = held
  /\ dbConfigs = [k \in ConfigKeys |-> Null]
  /\ sysKeyRow = "none"
  /\ fbConfigs = [k \in ConfigKeys |-> Null]
  /\ encryptionKeyCache = "none"
  /\ envKey = "none"
  /\ procEnv = [k \in ConfigKeys |-> "none"]
  /\ InitCache
  /\ pc = "idle"
  /\ req = [provider |-> "anthropic", body |-> "none", client |-> FALSE]
  /\ firstReply = "none"
  /\ calls = << >>
  /\ cursor = 1
  /\ logger = NoHandle
  /\ results = << >>
  /\ toolThrew = FALSE
  /\ providerCalls = 0
  /\ response = NoResponse
  /\ trace = << >>

NextAvail == \E q \in AvQueries : GetToolsAvailable(q)

SpecAvail == InitAvail /\ [][NextAvail]_vars

\* The names a response lists, in its order; none when it is an error.
ToolsIn(res) ==
  LET Names(tools) == [i \in 1..Len(tools) |-> tools[i].name]
  IN IF res.status # 200 THEN << >>
     ELSE CASE res.contentType = "text/yaml" -> Names(res.body.dump.tools)
            [] res.contentType = "text/plain" -> res.body.table
            [] res.contentType = "text/html" -> res.body.html
            [] OTHER -> Names(res.body.tools)
NamesIn(res) == {ToolsIn(res)[i] : i \in 1..Len(ToolsIn(res))}

\* The answer the handler gives to a query in the state as it is.
Answer(q) == ToolsAvailable(Store, q).res

\* C26: without pagination, the names returned for category=C and search=S
\* are those returned for category=C alone that are also returned for
\* search=S alone.
C26_CategoryAndSearch ==
  (/\ avRes.status # 0
   /\ avReq.category # "none" /\ avReq.search.t = "str" /\ avReq.limit = "none")
  => NamesIn(avRes) =
       NamesIn(Answer([avReq EXCEPT !.search = Undefined]))
         \cap NamesIn(Answer([avReq EXCEPT !.category = "none"]))

\* C27: with limit L and offset O a successful response lists at most L
\* tools, the slice [O, O+L) of the list the same filters give without
\* pagination, in its order; totalCount is the length of that list, and
\* metadata.limit and metadata.offset are L and O.
C27_Pagination ==
  (avRes.status = 200 /\ avReq.limit # "none") =>
    LET L == ParseInt(avReq.limit)
        O == ParseInt(avReq.offset)
        full == ToolsIn(Answer([avReq EXCEPT !.limit = "none", !.offset = "0"]))
        meta == IF avRes.contentType = "text/yaml" THEN avRes.body.dump.metadata
                ELSE avRes.body.metadata
    IN /\ Len(ToolsIn(avRes)) <= L
       /\ ToolsIn(avRes) = [i \in 1..Min(L, IF Len(full) > O THEN Len(full) - O ELSE 0)
                              |-> full[O + i]]
       /\ avRes.contentType \in {"application/json", "text/yaml"} =>
            /\ meta.totalCount = Len(full)
            /\ meta.limit = L
            /\ meta.offset = O

\* C27 happens: the second page of one, of three tools.
C27_Witness ==
  /\ avRes.status = 200 /\ avRes.contentType = "application/json"
  /\ avReq.limit = "1" /\ avReq.offset = "1"
  /\ avRes.body.metadata.totalCount = 3
  /\ Len(avRes.body.tools) = 1

\* C28: the answer is 500 {success: false, error} exactly when getAllTools
\* failed, and 200 with success: true otherwise.
C28_ErrorOnlyOnStoreFailure ==
  avRes.status # 0 =>
    /\ avRes.status = 500 <=> avRes.storeThrew
    /\ avRes.status = 500 => avRes.body = [success |-> FALSE, error |-> "message"]
    /\ ~avRes.storeThrew => avRes.status = 200

\* C29: the Content-Type of a successful response follows from format alone,
\* and json, no format and an unknown format give application/json with the
\* body format=json gives.
C29_ContentTypeByFormat ==
  avRes.status = 200 =>
    /\ avRes.contentType =
         CASE avReq.format = "yaml" -> "text/yaml"
           [] avReq.format = "table" -> "text/plain"
           [] avReq.format = "html" -> "text/html"
           [] OTHER -> "application/json"
    /\ avReq.format \notin {"yaml", "table", "html"} =>
         /\ avRes.body = Answer([avReq EXCEPT !.format = "json"]).body
         /\ avRes.body.success

\* C29 happens: an unknown format answered with tools listed.
C29_Witness ==
  /\ avRes.status = 200 /\ avReq.format = "bogus"
  /\ avRes.contentType = "application/json"
  /\ avRes.body.count > 0

\* ============================================================ createBackup
\* PersistenceService.createBackup run on two stores that hold the same tools
\* and the same Configuration rows but for the values of the rows.
BkCategory(key) == IF key = "ANTHROPIC_API_KEY" THEN "api_key" ELSE "server"
BkDescription(key) ==
  CASE key = "ANTHROPIC_API_KEY" -> "API key for Anthropic Claude models"
    [] key = "PORT" -> "Port for the MCP server"
    [] OTHER -> "System-generated encryption key"

\* The values a row may hold: plaintext, or iv:ciphertext when encrypted.
BkValues(key, enc) ==
  CASE key = "ANTHROPIC_API_KEY" ->
         IF enc THEN {"00ff:9a41", "00ff:77c2"} ELSE {"sk-ant-1", "sk-ant-2"}
    [] key = "PORT" -> {"3000", "8080"}
    [] OTHER -> {"key-1", "key-2"}

BkRow(key, value, enc) ==
  [t |-> "row", key |-> key, value |-> value, isEncrypted |-> enc,
   category |-> BkCategory(key), description |-> BkDescription(key)]

\* getConfigurationsByCategory: the rows of the category sorted by key; the
\* query is returned without await, so its rejection reaches the caller; with
\* no connection to be had the fallback store, which holds none, answers.
DbGetConfigurationsByCategory(st, rows, category) ==
  LET In(row) == ~IsNull(row) /\ row.category = category
  IN IF useFallback THEN Returns(st, << >>)
     ELSE IF ~CanConnect(st) THEN Returns(st, << >>)
     ELSE IF ~dbUp THEN Throws(Connected(st))
     ELSE Returns(Connected(st), SelectSeq(rows, In))

\* Lines 146-162: what the backup keeps of a tool.
BackupTool(tool) ==
  [name |-> tool.name, category |-> tool.category, enabled |-> tool.enabled]

\* Lines 164-177, the value kept as well.
BackupConfig_WithValue(config) ==
  [key |-> config.key, category |-> config.category,
   description |-> config.description, isEncrypted |-> config.isEncrypted,
   value |-> config.value]

\* Lines 164-177: what the backup keeps of a Configuration row.
BackupConfig(config) ==
  [key |-> config.key, category |-> config.category,
   description |-> config.description, isEncrypted |-> config.isEncrypted]

\* createBackup, lines 131-194: the file written, or the error thrown.
createBackup(st, rows) ==
  LET t == DbGetAllTools(st, [category |-> "none", enabledOnly |-> FALSE])
      a == DbGetConfigurationsByCategory(t.st, rows, "api_key")
      c == DbGetConfigurationsByCategory(a.st, rows, "server")
      Failed(st1) == [st |-> st1, backup |-> [made |-> TRUE, threw |-> TRUE]]
  IN IF useFallback THEN Failed(st)
     ELSE IF t.threw THEN Failed(t.st)
     ELSE IF a.threw THEN Failed(a.st)
     ELSE IF c.threw THEN Failed(c.st)
     ELSE [st |-> c.st,
           backup |->
             [made |-> TRUE, threw |-> FALSE, version |-> "1.0.0",
              tools |-> [i \in 1..Len(t.value) |-> BackupTool(t.value[i])],
              configurations |->
                [i \in 1..Len(c.value) |-> BackupConfig(c.value[i])]
                  \o [i \in 1..Len(a.value) |-> BackupConfig(a.value[i])]]]

BackupFrame ==
  UNCHANGED <<dbUp, useFallback, executions, envVars, keyVars, dbLast, crypt,
              regVars, fbLogVars, connVars, availVars, lateVars, smVars, mcpVars>>

\* createBackup() on store w.
CreateBackup(w) ==
  /\ ~bkBackup[w].made
  /\ LET r == createBackup(Store, bkConfigs[w])
     IN /\ SetStore(r.st)
        /\ bkBackup' = [bkBackup EXCEPT ![w] = r.backup]
  /\ UNCHANGED bkConfigs
  /\ BackupFrame

\* Two stores with the same tools and the same rows, each row with a value of
\* its own in either store; the service connected, in fallback mode, or with
\* its store out of reach.
InitBackup ==
  /\ dbUp \in BOOLEAN
  /\ useFallback \in BOOLEAN
  /\ isConnected = ~useFallback
  /\ executions = << >>
  /\ encryptionKeyPromise = 0
  /\ keyCalls = [u \in 1..MaxKeyUsers |-> NoKeyCall]
  /\ keyUsers = [u \in 1..MaxKeyUsers |-> NoKeyUser]
  /\ dbLast = NoDbCall
  /\ crypt = NoCrypt
  /\ IdleButBackup
  /\ dbTools \in {[n \in DbToolNames |-> Tool(n, 1)],
                  [n \in DbToolNames |-> IF n = "calculator" THEN Tool(n, 1) ELSE Null]}
  /\ fbTools = << >>
  /\ \E present \in [1..Len(BkKeys) -> BOOLEAN], enc \in BOOLEAN :
       \E v1, v2 \in BkValues(BkKeys[1], enc) \X BkValues(BkKeys[2], FALSE)
                       \X BkValues(BkKeys[3], FALSE) :
         LET Rows(v) == [i \in 1..Len(BkKeys) |->
                           IF present[i] THEN BkRow(BkKeys[i], v[i], i = 1 /\ enc)
                           ELSE Null]
         IN bkConfigs = <<Rows(v1), Rows(v2)>>
  /\ bkBackup = <<NoBackup, NoBackup>>
  /\ dbConfigs = [k \in ConfigKeys |-> Null]
  /\ sysKeyRow = "none"
  /\ fbConfigs = [k \in ConfigKeys |-> Null]
  /\ encryptionKeyCache = "none"
  /\ envKey = "none"
  /\ procEnv = [k \in ConfigKeys |-> "none"]
  /\ InitCache
  /\ pc = "idle"
  /\ req = [provider |-> "anthropic", body |-> "none", client |-> FALSE]
  /\ firstReply = "none"
  /\ calls = << >>
  /\ cursor = 1
  /\ logger = NoHandle
  /\ results = << >>
  /\ toolThrew = FALSE
  /\ providerCalls = 0
  /\ response = NoResponse
  /\ trace = << >>

NextBackup == \E w \in 1..2 : CreateBackup(w)

SpecBackup == InitBackup /\ [][NextBackup]_vars

\* C30: the backups of two stores that differ only in the values of their
\* Configuration rows have the same tools and the same configurations, and
\* no entry of a backup carries a value.
C30_BackupHidesValues ==
  /\ (bkBackup[1].made /\ bkBackup[2].made) =>
       /\ bkBackup[1].threw = bkBackup[2].threw
       /\ ~bkBackup[1].threw =>
            /\ bkBackup[1].tools = bkBackup[2].tools
            /\ bkBackup[1].configurations = bkBackup[2].configurations
  /\ \A w \in 1..2 : (bkBackup[w].made /\ ~bkBackup[w].threw) =>
       \A i \in 1..Len(bkBackup[w].configurations) :
         "value" \notin DOMAIN bkBackup[w].configurations[i]

\* C30 happens: both backups written, of stores whose api key and port
\* differ.
C30_Witness ==
  /\ bkBackup[1].made /\ bkBackup[2].made
  /\ ~bkBackup[1].threw /\ ~bkBackup[2].threw
  /\ Len(bkBackup[1].configurations) = 3
  /\ \A i \in 1..2 : bkConfigs[1][i].value # bkConfigs[2][i].value

\* ======================================================= restoreFromBackup
\* PersistenceService.restoreFromBackup step by step, one awaited tool or one
\* configuration entry at a time, on a durable store that holds an encrypted
\* api key and the port; the file is whatever its JSON holds.
RsKeys == {"ANTHROPIC_API_KEY", "PORT"}
RsEntries == [key : RsKeys, category : {"api_key", "server"}, isEncrypted : BOOLEAN]
RsFiles ==
  [version : BOOLEAN,
   tools : SeqsUpTo(DbToolNames, MaxFileTools),
   configurations : SeqsUpTo(RsEntries, MaxFileConfigs)]

\* The value getDecryptedValue gives for a row under the key it was written
\* with.
Decrypted(row) ==
  IF IsNull(row) THEN Null
  ELSE IF ~row.isEncrypted THEN row.value
  ELSE IF row.value.t = "cipher" THEN Str(row.value.v)
  ELSE Null

RestoreFrame ==
  UNCHANGED <<dbUp, useFallback, executions, envVars, keyVars, dbLast, crypt,
              regVars, fbLogVars, connVars, availVars, bkVars, smVars, mcpVars,
              fuOp, dtOp, flOp, rwOp, sdOp>>

RestoreEnd(op, result) == [op EXCEPT !.pc = "done", !.result = result]

\* Lines 201-210: the file is read and parsed; no version, an error thrown.
RestoreStart(file) ==
  /\ rsOp.pc = "idle"
  /\ rsOp' = LET op == [pc |-> "tools", file |-> file, tools |-> file.tools,
                        configurations |-> file.configurations,
                        saved |-> << >>, result |-> FALSE,
                        before |-> dbConfigs]
             IN IF file.version THEN op ELSE RestoreEnd(op, FALSE)
  /\ UNCHANGED <<isConnected, storeVars>>
  /\ RestoreFrame

\* Lines 213-217: await saveToolDefinition(tool) for the next tool.
RestoreTool(saveFails) ==
  /\ rsOp.pc = "tools" /\ rsOp.tools # << >>
  /\ LET r == DbSaveToolDefinition(Store, Tool(Head(rsOp.tools), 1), saveFails)
     IN /\ SetStore(r.st)
        /\ rsOp' = IF r.threw THEN RestoreEnd(rsOp, FALSE)
                   ELSE [rsOp EXCEPT !.tools = Tail(@),
                                     !.saved = Append(@, Head(rsOp.tools))]
  /\ RestoreFrame

\* Lines 220-239, an entry at a time: an api_key entry is skipped; else the
\* stored value is read and, when there is one, written back with the flag
\* of the file. Past the last entry, return true.
RestoreConfig(garble) ==
  /\ rsOp.pc = "tools" /\ rsOp.tools = << >>
  /\ IF rsOp.configurations = << >>
     THEN /\ rsOp' = RestoreEnd(rsOp, TRUE)
          /\ UNCHANGED <<isConnected, storeVars>>
     ELSE LET config == Head(rsOp.configurations)
              g == DbGetConfiguration(Store, config.key, TRUE, garble)
              existingConfig == g.value
              given == IF existingConfig.t = "str" THEN existingConfig.v ELSE "garbage"
              u == DbUpdateConfiguration(g.st, config.key, given, config.isEncrypted)
              next == [rsOp EXCEPT !.configurations = Tail(@)]
          IN IF config.category = "api_key"
             THEN /\ rsOp' = next
                  /\ UNCHANGED <<isConnected, storeVars>>
             ELSE IF g.threw
             THEN /\ rsOp' = RestoreEnd(rsOp, FALSE)
                  /\ SetStore(g.st)
             ELSE IF IsNull(existingConfig)
             THEN /\ rsOp' = next
                  /\ SetStore(g.st)
             ELSE /\ rsOp' = IF u.threw THEN RestoreEnd(rsOp, FALSE) ELSE next
                  /\ SetStore(u.st)
  /\ RestoreFrame

\* After initialize() on a reachable store: the api key encrypted under the
\* stored key, the port in plaintext, the key loaded or not yet.
InitRestore ==
  /\ InitDb
  /\ dbUp /\ ~useFallback /\ isConnected
  /\ dbTools = [n \in DbToolNames |-> Null]
  /\ dbConfigs = [k \in RsKeys |->
                    IF k = "PORT" THEN ConfigRow(Str("3000"), FALSE)
                    ELSE ConfigRow(Cipher("generated", "sk-1"), TRUE)]
  /\ sysKeyRow = "generated"
  /\ fbTools = << >>
  /\ fbConfigs = [k \in RsKeys |-> Null]
  /\ encryptionKeyCache \in {"none", "generated"}
  /\ envKey = "none"
  /\ procEnv = [k \in ConfigKeys |-> "none"]
  /\ InitCache
  /\ pc = "idle"
  /\ req = [provider |-> "anthropic", body |-> "none", client |-> FALSE]
  /\ firstReply = "none"
  /\ calls = << >>
  /\ cursor = 1
  /\ logger = NoHandle
  /\ results = << >>
  /\ toolThrew = FALSE
  /\ providerCalls = 0
  /\ response = NoResponse
  /\ trace = << >>

NextRestore ==
  \/ \E file \in RsFiles : RestoreStart(file)
  \/ \E saveFails \in BOOLEAN : RestoreTool(saveFails)
  \/ \E garble \in BOOLEAN : RestoreConfig(garble)
  \/ StoreFlips

SpecRestore == InitRestore /\ [][NextRestore]_vars

\* C31: a restore leaves every api_key configuration as it was, whatever the
\* file holds, leaves the decrypted value of every other configuration as it
\* was, and, returning true, has saved every tool of the file in its order.
C31_RestoreFrame ==
  rsOp.pc # "idle" =>
    /\ \A k \in RsKeys :
         IF BkCategory(k) = "api_key"
         THEN dbConfigs[k] = rsOp.before[k] /\ IsNull(fbConfigs[k])
         ELSE Decrypted(dbConfigs[k]) = Decrypted(rsOp.before[k])
    /\ (rsOp.pc = "done" /\ rsOp.result) => rsOp.saved = rsOp.file.tools

\* ======================================================================
\*  Further properties of POST /mcp/:provider (SpecMcp)
\* ======================================================================
\* C32: a failure of the durable store while the 'mcp' record is created or
\* completed never changes the HTTP outcome: once the provider call(s) and the
\* tool executions have succeeded and the handler is at its completion, the
\* step that leaves the completion answers 200 with the provider's response,
\* also when the completion handle's save fails.
C32_StoreFailureKeeps200 ==
  [][(pc = "complete" /\ pc' # "complete") =>
       response' = [status |-> 200, body |-> "provider_reply"]]_vars

\* ======================================================================
\*  The follow-up conversation of POST /mcp/:provider (SpecFollow)
\* ======================================================================
\* The two handlers of the repository: server.js with the state manager, and
\* src/server.js without it.
FuHandlers == {"server", "src_server"}
FuIds == {"call_1", "call_2"}
FuModels == {"undefined", "given_model"}

Msg(role, content) == [role |-> role, content |-> content]

\* req.body.messages: absent, or a list.
FuMessages ==
  {[given |-> FALSE, list |-> << >>],
   [given |-> TRUE, list |-> << >>],
   [given |-> TRUE, list |-> <<Msg("user", Str("hi"))>>],
   [given |-> TRUE, list |-> <<Msg("system", Str("be brief")), Msg("user", Str("hi"))>>]}

\* messages || []
OrEmpty(messages) == IF messages.given THEN messages.list ELSE << >>

\* A tool call of the first reply, and the output of its tool.
FuCall(id) == [id |-> id, name |-> "web_search"]
Out(id) == [t |-> "out", of |-> id]
Json(x) == [t |-> "json", of |-> x]

\* executeTools: one {tool_name, input, output} per tool_use block, in order.
executeTools(content) ==
  [k \in 1..Len(content) |-> [tool_name |-> content[k].name, output |-> Out(content[k].id)]]

\* executeOpenAITools: one {id, output} per tool call, in order.
executeOpenAITools(toolCalls) ==
  [k \in 1..Len(toolCalls) |-> [id |-> toolCalls[k].id, output |-> Out(toolCalls[k].id)]]

\* handleAnthropicRequest hands the messages to the SDK as they are.
handleAnthropicRequest(messages, model) ==
  [provider |-> "anthropic", model |-> model, messages |-> messages]

\* handleOpenAIRequest maps user, assistant and system messages to
\* {role, content} and leaves the others as they are.
FormatMessage(msg) ==
  IF msg.role \in {"user", "assistant", "system"} THEN Msg(msg.role, msg.content) ELSE msg

handleOpenAIRequest(messages, model) ==
  [provider |-> "openai", model |-> model,
   messages |-> [k \in 1..Len(messages) |-> FormatMessage(messages[k])]]

\* The assistant's tool-use message, per provider.
AssistantMessage(provider, toolCalls) ==
  IF provider = "anthropic"
  THEN Msg("assistant", toolCalls)
  ELSE [role |-> "assistant", content |-> Null, tool_calls |-> toolCalls]

\* Both handlers, anthropic branch.
AnthropicFollowup(messages, content) ==
  OrEmpty(messages)
    \o <<Msg("assistant", content),
          Msg("user", <<[type |-> "tool_result", content |-> executeTools(content)]>>)>>

\* server.js, openai branch: one tool message per output.
ToolMessage(toolOutput) ==
  [role |-> "tool", content |-> toolOutput.output, tool_call_id |-> toolOutput.id]

OpenAIFollowup(messages, toolCalls) ==
  LET toolOutputs == executeOpenAITools(toolCalls)
  IN OrEmpty(messages)
       \o <<AssistantMessage("openai", toolCalls)>>
       \o [k \in 1..Len(toolOutputs) |-> ToolMessage(toolOutputs[k])]

\* src/server.js, openai branch: one tool message for all the outputs, under
\* the id of the first call.
SrcOpenAIFollowup(messages, toolCalls) ==
  LET toolOutputs == executeOpenAITools(toolCalls)
  IN OrEmpty(messages)
       \o <<AssistantMessage("openai", toolCalls),
             [role |-> "tool", content |-> Json(toolOutputs),
              tool_call_id |-> toolCalls[1].id]>>

FollowFrame ==
  UNCHANGED <<dbUp, useFallback, isConnected, executions, storeVars, envVars, keyVars,
              dbLast, crypt, regVars, fbLogVars, connVars, availVars, bkVars, rsOp,
              dtOp, flOp, rwOp, sdOp, smVars, mcpVars>>

\* The first reply of the provider signals tool use.
FuFirstReply(handler, provider, messages, ids, model) ==
  /\ fuOp.pc = "idle"
  /\ ids # << >>
  /\ fuOp' = [pc |-> "reply", handler |-> handler, provider |-> provider,
              messages |-> messages, model |-> model,
              toolCalls |-> [k \in 1..Len(ids) |-> FuCall(ids[k])]]
  /\ FollowFrame

\* The tools are executed, the conversation is assembled and the follow-up
\* request is made.
FuFollowup ==
  /\ fuOp.pc = "reply"
  /\ LET conversation ==
           IF fuOp.provider = "anthropic"
           THEN AnthropicFollowup(fuOp.messages, fuOp.toolCalls)
           ELSE IF fuOp.handler = "server"
           THEN OpenAIFollowup(fuOp.messages, fuOp.toolCalls)
           ELSE SrcOpenAIFollowup(fuOp.messages, fuOp.toolCalls)
         sent == IF fuOp.provider = "anthropic"
                 THEN handleAnthropicRequest(conversation, fuOp.model)
                 ELSE handleOpenAIRequest(conversation, fuOp.model)
     IN fuOp' = [fuOp EXCEPT !.pc = "sent"] @@
                [conversation |-> conversation, sent |-> sent]
  /\ FollowFrame

InitFollow == InitMcp

NextFollow ==
  \/ \E handler \in FuHandlers, provider \in SupportedProviders, messages \in FuMessages,
        ids \in SeqsUpTo(FuIds, MaxCalls), model \in FuModels :
        FuFirstReply(handler, provider, messages, ids, model)
  \/ FuFollowup

SpecFollow == InitFollow /\ [][NextFollow]_vars

\* The tool-result part of a conversation: what follows the original
\* messages and the assistant's message.
FuOriginal == OrEmpty(fuOp.messages)
FuResults(conv) == SubSeq(conv, Len(FuOriginal) + 2, Len(conv))

\* The shape of a follow-up conversation conv for the reply held in fuOp.
FuShape(conv) ==
  /\ Len(conv) >= Len(FuOriginal) + 1
  /\ SubSeq(conv, 1, Len(FuOriginal)) = FuOriginal
  /\ conv[Len(FuOriginal) + 1] = AssistantMessage(fuOp.provider, fuOp.toolCalls)
  /\ IF fuOp.provider = "openai"
     THEN /\ Len(FuResults(conv)) = Len(fuOp.toolCalls)
          /\ \A k \in 1..Len(FuResults(conv)) :
               /\ FuResults(conv)[k].role = "tool"
               /\ FuResults(conv)[k].tool_call_id = fuOp.toolCalls[k].id
     ELSE /\ Len(FuResults(conv)) = 1
          /\ FuResults(conv)[1].role = "user"
          /\ Len(FuResults(conv)[1].content) = 1
          /\ FuResults(conv)[1].content[1].type = "tool_result"
          /\ Len(FuResults(conv)[1].content[1].content) = Len(fuOp.toolCalls)

\* C33: the follow-up conversation is the original messages, then the
\* assistant's tool-use message, then the tool results in the provider's
\* shape: for OpenAI one role "tool" message per tool call, in call order,
\* each with the id of its call; for Anthropic one user message with a single
\* tool_result block holding all the outputs. The follow-up goes to the same
\* provider with the same model.
C33_FollowupConversation ==
  fuOp.pc = "sent" =>
    /\ FuShape(fuOp.sent.messages)
    /\ fuOp.sent.provider = fuOp.provider
    /\ fuOp.sent.model = fuOp.model

\* ======================================================================
\*  POST /tools/... called directly (SpecDirect)
\* ======================================================================
\* The tool endpoints: the path, the tool behind it, and whether the handler
\* logs an execution of its own.
DtEndpoints ==
  {[path |-> <<"", "tools", "web", "search">>, tool |-> "web_search", logs |-> TRUE],
   [path |-> <<"", "tools", "web", "content">>, tool |-> "web_content", logs |-> TRUE],
   [path |-> <<"", "tools", "web", "batch">>, tool |-> "web_batch", logs |-> TRUE],
   [path |-> <<"", "tools", "image", "generate">>, tool |-> "generate_image", logs |-> FALSE]}

\* req.path.split('/')[2]
PathToolName(path) == path[3]

DirectFrame ==
  UNCHANGED <<dbUp, useFallback, storeVars, envVars, keyVars, dbLast, crypt, regVars,
              fbLogVars, connVars, availVars, bkVars, rsOp, fuOp, flOp, rwOp, sdOp,
              cacheVars, mcpVars>>

\* The request arrives: the middleware registers its finish listener, the
\* handler validates the body (400 when the required parameter is missing)
\* and, for the web tools, logs the execution.
DtReceive(endpoint, valid) ==
  /\ dtOp.pc = "idle"
  /\ LET op == [pc |-> "tool", endpoint |-> endpoint, valid |-> valid,
                logger |-> NoHandle, mwLogger |-> NoHandle, status |-> 0]
     IN IF ~valid
        THEN /\ dtOp' = [op EXCEPT !.pc = "responded", !.status = 400]
             /\ UNCHANGED <<executions, isConnected, changeSinceSync>>
        ELSE IF ~endpoint.logs
        THEN /\ dtOp' = op
             /\ UNCHANGED <<executions, isConnected, changeSinceSync>>
        ELSE LET r == SMLogExecution(executions, endpoint.tool, "direct")
             IN /\ executions' = r.execs
                /\ isConnected' = r.connected
                /\ changeSinceSync' = TRUE
                /\ dtOp' = [op EXCEPT !.logger = r.handle]
  /\ DirectFrame

\* The tool returns: complete(results), then res.json. A throwing completion
\* lands in the catch block.
DtToolReturns ==
  /\ dtOp.pc = "tool"
  /\ LET r == Complete(executions, dtOp.logger, "success")
     IN /\ executions' = r.execs
        /\ dtOp' = IF r.threw THEN [dtOp EXCEPT !.pc = "catch"]
                   ELSE [dtOp EXCEPT !.pc = "responded", !.status = 200]
  /\ UNCHANGED <<isConnected, changeSinceSync>>
  /\ DirectFrame

\* The tool throws (or, for the image tool, reports no success).
DtToolThrows ==
  /\ dtOp.pc = "tool"
  /\ dtOp' = IF dtOp.endpoint.logs THEN [dtOp EXCEPT !.pc = "catch"]
             ELSE [dtOp EXCEPT !.pc = "responded", !.status = 500]
  /\ UNCHANGED <<executions, isConnected, changeSinceSync>>
  /\ DirectFrame

\* The catch block: complete(null, error), then the 500.
DtCatch ==
  /\ dtOp.pc = "catch"
  /\ executions' = Complete(executions, dtOp.logger, "failure").execs
  /\ dtOp' = [dtOp EXCEPT !.pc = "responded", !.status = 500]
  /\ UNCHANGED <<isConnected, changeSinceSync>>
  /\ DirectFrame

\* res.on('finish'): for a POST under /tools/ answered below 500 the
\* middleware logs an execution named after the third path segment.
DtFinish ==
  /\ dtOp.pc = "responded"
  /\ IF dtOp.status < 500
     THEN LET r == SMLogExecution(executions, PathToolName(dtOp.endpoint.path), "direct")
          IN /\ executions' = r.execs
             /\ isConnected' = r.connected
             /\ changeSinceSync' = TRUE
             /\ dtOp' = [dtOp EXCEPT !.pc = "logged", !.mwLogger = r.handle]
     ELSE /\ dtOp' = [dtOp EXCEPT !.pc = "finished"]
          /\ UNCHANGED <<executions, isConnected, changeSinceSync>>
  /\ DirectFrame

\* .then(logger => logger.complete({statusCode, duration}))
DtMiddlewareComplete ==
  /\ dtOp.pc = "logged"
  /\ executions' = Complete(executions, dtOp.mwLogger, "success").execs
  /\ dtOp' = [dtOp EXCEPT !.pc = "finished"]
  /\ UNCHANGED <<isConnected, changeSinceSync>>
  /\ DirectFrame

InitDirect == InitMcp

NextDirect ==
  \/ \E endpoint \in DtEndpoints, valid \in BOOLEAN : DtReceive(endpoint, valid)
  \/ DtToolReturns
  \/ DtToolThrows
  \/ DtCatch
  \/ DtFinish
  \/ DtMiddlewareComplete
  \/ StoreFlips

SpecDirect == InitDirect /\ [][NextDirect]_vars

\* C34: one attempted invocation produces exactly one ToolExecution record:
\* a direct POST to a /tools/... endpoint that passes validation has created,
\* when the request is over, exactly one record, and its toolName is the name
\* of the tool.
C34_OneRecordPerInvocation ==
  (dtOp.pc = "finished" /\ dtOp.valid) =>
    /\ Len(executions) = 1
    /\ executions[1].toolName = dtOp.endpoint.tool

\* ======================================================================
\*  saveStateToDb interleaved with saveTool and setConfig (SpecFlush)
\* ======================================================================
\* saveTool and setConfig are taken in two steps, before and after their
\* await; a flush holds the entry object it is writing, and "same" tells
\* whether the cache still holds that object. The interval timer and POST
\* /admin/sync make the same call; the runs are recorded as the timer's.
FlushTriggers == {"timer"}

ItemOf(kind, id) == CHOOSE i \in 1..Len(SyncItems) : SyncItems[i] = [kind |-> kind, id |-> id]

\* state.tools.set / state.configurations.set put another object under the
\* key: the flushes writing that entry now hold an object the cache no
\* longer has.
Replaced(held, item) ==
  [s \in 1..MaxRuns |->
     IF syncRuns[s].pc = "writing" /\ syncRuns[s].item = item
     THEN [held[s] EXCEPT !.same = FALSE] ELSE held[s]]

\* "_dirty = false" on the object held under a key reaches every holder of
\* that object.
Cleaned(held, item) ==
  [s \in 1..MaxRuns |->
     IF syncRuns[s].pc = "writing" /\ syncRuns[s].item = item /\ held[s].same
     THEN [held[s] EXCEPT !.entry.dirty = FALSE] ELSE held[s]]

FlushFrame ==
  UNCHANGED <<dbUp, useFallback, executions, envVars, keyVars, dbLast, crypt, regVars,
              fbLogVars, connVars, availVars, bkVars, rsOp, fuOp, dtOp, rwOp, sdOp,
              durableSet,
              syncInterval, isShuttingDown, syncInProgress, exited, mcpVars>>

\* saveTool up to its await: the definition is cached dirty and the state
\* marked changed.
SaveToolBegin(def) ==
  /\ flOp.call.pc = "idle"
  /\ cacheTools' = [cacheTools EXCEPT ![def.name] = CacheTool(def, TRUE)]
  /\ changeSinceSync' = TRUE
  /\ flOp' = [call |-> [pc |-> "awaiting", op |-> "saveTool", def |-> def],
              held |-> Replaced(flOp.held, ItemOf("tool", def.name))]
  /\ smLast' = NoCall
  /\ syncLast' = NoRun
  /\ UNCHANGED <<isConnected, storeVars, cacheConfigs, lastSync, syncRuns>>
  /\ FlushFrame

\* saveTool after its await: what the DatabaseService returned is cached
\* clean; when it threw, the cache is left as it is.
SaveToolResume(saveFails) ==
  /\ flOp.call.pc = "awaiting" /\ flOp.call.op = "saveTool"
  /\ LET def == flOp.call.def
         r == DbSaveToolDefinition(Store, Tool(def.name, def.rev), saveFails)
         saved == ~r.threw /\ ~IsNull(r.value)
     IN /\ SetStore(r.st)
        /\ cacheTools' = IF saved THEN [cacheTools EXCEPT ![def.name] = CacheTool(r.value, FALSE)]
                         ELSE cacheTools
        /\ flOp' = [call |-> [pc |-> "idle"],
                    held |-> IF saved THEN Replaced(flOp.held, ItemOf("tool", def.name))
                             ELSE flOp.held]
  /\ smLast' = NoCall
  /\ syncLast' = NoRun
  /\ UNCHANGED <<changeSinceSync, cacheConfigs, lastSync, syncRuns>>
  /\ FlushFrame

\* setConfig up to its await.
SetConfigBegin(key, v) ==
  /\ flOp.call.pc = "idle"
  /\ cacheConfigs' = [cacheConfigs EXCEPT ![key] = CacheConfig(Str(v), TRUE, TRUE)]
  /\ changeSinceSync' = TRUE
  /\ flOp' = [call |-> [pc |-> "awaiting", op |-> "setConfig", key |-> key, value |-> v],
              held |-> Replaced(flOp.held, ItemOf("config", key))]
  /\ smLast' = NoCall
  /\ syncLast' = NoRun
  /\ UNCHANGED <<isConnected, storeVars, cacheTools, lastSync, syncRuns>>
  /\ FlushFrame

\* setConfig after its await: the flag of the entry now cached under the key
\* is cleared, unless the write threw.
SetConfigResume ==
  /\ flOp.call.pc = "awaiting" /\ flOp.call.op = "setConfig"
  /\ LET key == flOp.call.key
         r == DbUpdateConfiguration(Store, key, flOp.call.value, TRUE)
     IN /\ SetStore(r.st)
        /\ cacheConfigs' = IF r.threw THEN cacheConfigs
                           ELSE [cacheConfigs EXCEPT ![key].dirty = FALSE]
        /\ flOp' = [call |-> [pc |-> "idle"],
                    held |-> IF r.threw THEN flOp.held
                             ELSE Cleaned(flOp.held, ItemOf("config", key))]
  /\ smLast' = NoCall
  /\ syncLast' = NoRun
  /\ UNCHANGED <<changeSinceSync, cacheTools, lastSync, syncRuns>>
  /\ FlushFrame

\* saveStateToDb is called in slot s, given the runs, the entries held and
\* the status: it returns at once when nothing changed since the last sync,
\* in fallback mode, or when no entry is dirty; otherwise it starts the
\* first write and waits for it.
StartFlush(st, s, trigger) ==
  LET first == NextDirty(cacheTools, cacheConfigs, 0)
      run == [pc |-> "writing", trigger |-> trigger, item |-> first,
              startDirty |-> {}, writes |-> << >>, overlapped |-> FALSE]
  IN IF ~st.changed /\ st.lastSync THEN st
     ELSE IF useFallback \/ first = 0
     THEN [st EXCEPT !.lastSync = TRUE, !.changed = FALSE]
     ELSE [st EXCEPT !.runs[s] = run,
                     !.held[s] = [entry |-> EntryOf(cacheTools, cacheConfigs, first),
                                  same |-> TRUE]]

FlushStatus ==
  [runs |-> syncRuns, held |-> flOp.held, lastSync |-> lastSync, changed |-> changeSinceSync]

SetFlushStatus(st) ==
  /\ syncRuns' = st.runs
  /\ flOp' = [flOp EXCEPT !.held = st.held]
  /\ lastSync' = st.lastSync
  /\ changeSinceSync' = st.changed

\* The interval timer or POST /admin/sync calls saveStateToDb.
FlushStart(s, trigger) ==
  /\ syncRuns[s].pc = "idle"
  /\ \A r \in 1..(s - 1) : syncRuns[r].pc # "idle"
  /\ SetFlushStatus(StartFlush(FlushStatus, s, trigger))
  /\ smLast' = NoCall
  /\ syncLast' = NoRun
  /\ UNCHANGED <<isConnected, storeVars, cacheTools, cacheConfigs>>
  /\ FlushFrame

\* The write a flush waits for returns or throws. A throw ends the call. A
\* return clears the flag of the object the flush holds, and the walk goes
\* on to the next dirty entry of the maps, or ends with lastSync set and
\* changeSinceSync cleared.
FlushWriteDone(s, saveFails) ==
  /\ syncRuns[s].pc = "writing"
  /\ LET run == syncRuns[s]
         it == SyncItems[run.item]
         entry == flOp.held[s].entry
         r == IF it.kind = "tool"
              THEN DbSaveToolDefinition(Store, Tool(entry.name, entry.rev), saveFails)
              ELSE DbUpdateConfiguration(Store, it.id, entry.value.v, entry.isEncrypted)
         clears == ~r.threw /\ flOp.held[s].same
         tools == IF it.kind = "tool" /\ clears
                  THEN [cacheTools EXCEPT ![it.id].dirty = FALSE] ELSE cacheTools
         configs == IF it.kind = "config" /\ clears
                    THEN [cacheConfigs EXCEPT ![it.id].dirty = FALSE] ELSE cacheConfigs
         held == IF clears THEN Cleaned(flOp.held, run.item) ELSE flOp.held
         next == NextDirty(tools, configs, run.item)
     IN /\ SetStore(r.st)
        /\ cacheTools' = tools
        /\ cacheConfigs' = configs
        /\ IF r.threw
           THEN /\ syncRuns' = [syncRuns EXCEPT ![s] = IdleRun]
                /\ flOp' = [flOp EXCEPT !.held[s] = NoHeld]
                /\ UNCHANGED <<lastSync, changeSinceSync>>
           ELSE IF next = 0
           THEN /\ syncRuns' = [syncRuns EXCEPT ![s] = IdleRun]
                /\ flOp' = [flOp EXCEPT !.held = [held EXCEPT ![s] = NoHeld]]
                /\ lastSync' = TRUE
                /\ changeSinceSync' = FALSE
           ELSE /\ syncRuns' = [syncRuns EXCEPT ![s].item = next]
                /\ flOp' = [flOp EXCEPT !.held =
                                        [held EXCEPT ![s] =
                                           [entry |-> EntryOf(tools, configs, next),
                                            same |-> TRUE]]]
                /\ UNCHANGED <<lastSync, changeSinceSync>>
  /\ smLast' = NoCall
  /\ syncLast' = NoRun
  /\ FlushFrame

InitFlush == InitSM

NextFlush ==
  \/ \E s \in 1..MaxRuns, t \in FlushTriggers : FlushStart(s, t)
  \/ \E s \in 1..MaxRuns, f \in BOOLEAN : FlushWriteDone(s, f)
  \/ \E d \in SyncToolDefs, f \in BOOLEAN : SaveToolBegin(d) \/ SaveToolResume(f)
  \/ \E k \in ConfigKeys, v \in ConfigValues : SetConfigBegin(k, v)
  \/ SetConfigResume
  \/ \E n \in SMToolNames : SMLogExecutionCall(n)
  \/ StoreFlips

SpecFlush == InitFlush /\ [][NextFlush]_vars

\* C35: in every reachable state of the State Manager, a cached tool or
\* configuration marked dirty implies status.changeSinceSync, also while a
\* flush runs interleaved with saveTool, setConfig and logExecution at their
\* await points, and after a flush executed in fallback mode.
C35_DirtyImpliesChanged ==
  DirtyItems(cacheTools, cacheConfigs) # {} => changeSinceSync

\* ======================================================================
\*  getConfig and the history of the cache (SpecSM)
\* ======================================================================
\* What getConfig(key, decrypt) returns in the current state of the stores
\* when the State Manager has no cached entry for the key: the run in which
\* no getConfig or setConfig came before.
FreshGetConfig(key, decrypt, garble) ==
  LET r == DbGetConfiguration(Store, key, decrypt, garble)
      found == ~r.threw /\ ~IsNull(r.value)
  IN IF found THEN r.value
     ELSE IF procEnv[key] # "none" THEN Str(procEnv[key])
     ELSE Null

\* C36: for a fixed stored configuration the value getConfig(key, d) returns
\* depends only on the stored entry and d, not on the getConfig / setConfig
\* calls made before: every getConfig call returns what the same call
\* returns with nothing cached, so getConfig(key, true) never yields
\* ciphertext and getConfig(key, false) on an encrypted entry never yields
\* plaintext because of what was cached.
C36_HistoryIndependent ==
  [][smLast'.op = "getConfig" =>
       \E g \in BOOLEAN :
         smLast'.value = FreshGetConfig(smLast'.key, smLast'.decrypt, g)]_vars

\* ======================================================================
\*  The DatabaseService read after written, the store coming and going
\*  (SpecRyw)
\* ======================================================================
RywTool == "web_search"
RywKey == "ANTHROPIC_API_KEY"
RywRevs == {1, 2}

RywFrame ==
  UNCHANGED <<dbUp, useFallback, executions, envVars, keyVars, dbLast, crypt, regVars,
              fbLogVars, connVars, availVars, bkVars, rsOp, fuOp, dtOp, flOp, sdOp,
              smVars, mcpVars>>

\* saveToolDefinition(def): when it returns, def is what was last saved.
RywSaveToolDefinition(rev, saveFails) ==
  /\ LET def == [t |-> "tool", name |-> RywTool, rev |-> rev]
         r == DbSaveToolDefinition(Store, def, saveFails)
     IN /\ SetStore(r.st)
        /\ rwOp' = [rwOp EXCEPT !.saved = IF r.threw THEN @ ELSE def, !.read = NoRead]
  /\ RywFrame

\* updateConfiguration(key, v): when it returns, v is what the key was last
\* set to.
RywUpdateConfiguration(v) ==
  /\ LET r == DbUpdateConfiguration(Store, RywKey, v, TRUE)
     IN /\ SetStore(r.st)
        /\ rwOp' = [rwOp EXCEPT !.set = IF r.threw THEN @ ELSE v, !.read = NoRead]
  /\ RywFrame

\* getToolByName(name)
RywGetToolByName ==
  /\ LET r == DbGetToolByName(Store, RywTool)
     IN /\ SetStore(r.st)
        /\ rwOp' = [rwOp EXCEPT !.read = [op |-> "getToolByName", key |-> RywTool,
                                          value |-> r.value, threw |-> r.threw]]
  /\ RywFrame

\* getConfiguration(key)
RywGetConfiguration ==
  /\ LET r == DbGetConfiguration(Store, RywKey, TRUE, FALSE)
     IN /\ SetStore(r.st)
        /\ rwOp' = [rwOp EXCEPT !.read = [op |-> "getConfiguration", key |-> RywKey,
                                          value |-> r.value, threw |-> r.threw]]
  /\ RywFrame

InitRyw == InitDbDirect

NextRyw ==
  \/ \E rev \in RywRevs, f \in BOOLEAN : RywSaveToolDefinition(rev, f)
  \/ \E v \in DbValues : RywUpdateConfiguration(v)
  \/ RywGetToolByName
  \/ RywGetConfiguration
  \/ StoreFlips

SpecRyw == InitRyw /\ [][NextRyw]_vars

\* A record read holds every field of the definition saved.
HoldsDef(value, def) ==
  /\ ~IsNull(value)
  /\ \A f \in DOMAIN def : f \in DOMAIN value /\ value[f] = def[f]

\* C37: the DatabaseService gives read-your-writes whatever the availability
\* of the durable store: once saveToolDefinition(def) or
\* updateConfiguration(key, v) has returned, a later getToolByName(def.name)
\* or getConfiguration(key) that returns gives that data, also when the
\* write went to the fallback store during an outage and the read to the
\* durable store after it, and the other way round.
C37_ReadYourWrites ==
  /\ (rwOp.read.op = "getToolByName" /\ ~rwOp.read.threw /\ ~IsNull(rwOp.saved)) =>
       HoldsDef(rwOp.read.value, rwOp.saved)
  /\ (rwOp.read.op = "getConfiguration" /\ ~rwOp.read.threw /\ rwOp.set # "none") =>
       rwOp.read.value = Str(rwOp.set)

\* ======================================================================
\*  SIGINT / SIGTERM (SpecShutdown)
\* ======================================================================
\* The StateManager registers its handler first (its initialize runs before
\* the PersistenceService's), so on a signal StateManager.handleShutdown runs
\* up to its first await, then PersistenceService.handleShutdown up to its
\* first await.
FreeSlot(runs) ==
  LET free == {s \in 1..MaxRuns : runs[s].pc = "idle"}
  IN IF free = {} THEN 0 ELSE CHOOSE s \in free : \A r \in free : s <= r

ShutdownFrame ==
  UNCHANGED <<dbUp, useFallback, executions, storeVars, envVars, keyVars, dbLast, crypt,
              regVars, fbLogVars, connVars, availVars, bkVars, rsOp, fuOp, dtOp, rwOp,
              cacheTools, cacheConfigs, durableSet, mcpVars>>

\* A signal arrives. StateManager.handleShutdown clears the interval and
\* calls saveStateToDb. PersistenceService.handleShutdown returns when a
\* shutdown is under way; otherwise it sets isShuttingDown and calls
\* syncStateToDatabase, which calls saveStateToDb unless a sync of its own is
\* in progress.
Signal ==
  /\ ~exited
  /\ sdOp.signals < MaxSignals
  /\ LET a == FreeSlot(syncRuns)
         st1 == StartFlush(FlushStatus, a, "smShutdown")
         b == FreeSlot(st1.runs)
         first == ~isShuttingDown
         syncs == first /\ ~syncInProgress
         st2 == IF syncs THEN StartFlush(st1, b, "psShutdown") ELSE st1
         waits == syncs /\ st2.runs[b].pc = "writing"
     IN /\ a # 0
        /\ sdOp.pc = "syncing" => a # sdOp.psRun
        /\ syncs => b # 0
        /\ SetFlushStatus(st2)
        /\ syncInProgress' = (syncInProgress \/ waits)
        /\ sdOp' = IF first
                   THEN [pc |-> "syncing", signals |-> sdOp.signals + 1,
                         psRun |-> IF waits THEN b ELSE 0]
                   ELSE [sdOp EXCEPT !.signals = @ + 1]
  /\ syncInterval' = FALSE
  /\ isShuttingDown' = TRUE
  /\ smLast' = NoCall
  /\ syncLast' = NoRun
  /\ UNCHANGED <<isConnected, exited>>
  /\ ShutdownFrame

\* syncStateToDatabase has returned. Connected and not in fallback mode, the
\* handler goes on to createBackup and waits for it. Otherwise close() has
\* nothing to close and the process exits in the same turn.
Synced ==
  /\ ~exited
  /\ sdOp.pc = "syncing"
  /\ sdOp.psRun # 0 => syncRuns[sdOp.psRun].pc = "idle"
  /\ syncInProgress' = FALSE
  /\ IF isConnected /\ ~useFallback
     THEN /\ sdOp' = [sdOp EXCEPT !.pc = "backup", !.psRun = 0]
          /\ exited' = exited
     ELSE /\ sdOp' = [sdOp EXCEPT !.pc = "exited", !.psRun = 0]
          /\ exited' = TRUE
  /\ smLast' = NoCall
  /\ syncLast' = NoRun
  /\ UNCHANGED <<isConnected, syncRuns, flOp, lastSync, changeSinceSync,
                 syncInterval, isShuttingDown>>
  /\ ShutdownFrame

\* createBackup has returned or thrown: databaseService.close() is called
\* and, connected, waits for closeDB.
BackupDone ==
  /\ ~exited
  /\ sdOp.pc = "backup"
  /\ IF isConnected
     THEN /\ sdOp' = [sdOp EXCEPT !.pc = "closing"]
          /\ exited' = exited
     ELSE /\ sdOp' = [sdOp EXCEPT !.pc = "exited"]
          /\ exited' = TRUE
  /\ smLast' = NoCall
  /\ syncLast' = NoRun
  /\ UNCHANGED <<isConnected, syncRuns, flOp, lastSync, changeSinceSync,
                 syncInterval, isShuttingDown, syncInProgress>>
  /\ ShutdownFrame

\* closeDB has returned: isConnected is cleared and process.exit is called
\* in the same turn. When closing the connection fails, closeDB itself
\* calls process.exit and isConnected stays as it was.
Closed(closeFails) ==
  /\ ~exited
  /\ sdOp.pc = "closing"
  /\ isConnected' = closeFails
  /\ sdOp' = [sdOp EXCEPT !.pc = "exited"]
  /\ exited' = TRUE
  /\ smLast' = NoCall
  /\ syncLast' = NoRun
  /\ UNCHANGED <<syncRuns, flOp, lastSync, changeSinceSync,
                 syncInterval, isShuttingDown, syncInProgress>>
  /\ ShutdownFrame

InitShutdown == InitSM

\* Before the signal saveTool and setConfig leave entries in the cache, dirty
\* when their write-through threw; from the signal on the flushes go on
\* until the process exits.
NextShutdown ==
  \/ \E d \in SyncToolDefs, f \in BOOLEAN : sdOp.signals = 0 /\ SMSaveTool(d, f)
  \/ \E k \in ConfigKeys, v \in ConfigValues : sdOp.signals = 0 /\ SMSetConfig(k, v, TRUE)
  \/ Signal
  \/ \E s \in 1..MaxRuns, f \in BOOLEAN : ~exited /\ FlushWriteDone(s, f)
  \/ Synced
  \/ BackupDone
  \/ \E closeFails \in BOOLEAN : Closed(closeFails)
  \/ ~exited /\ StoreFlips

SpecShutdown == InitShutdown /\ [][NextShutdown]_vars

\* C38: on SIGINT / SIGTERM the shutdown sequence runs at most once and in
\* order: every saveStateToDb call has returned, with success or failure,
\* when the closing of the database connection begins and when the process
\* exits; the process exits only once databaseService.close() has been
\* called or there is no connection to close; and no flush write is issued
\* once close() has been called.
C38_ShutdownInOrder ==
  [][/\ (sdOp.pc # "serving" /\ sdOp'.pc = "syncing") => sdOp.pc = "syncing"
     /\ (sdOp.pc # "closing" /\ sdOp'.pc = "closing") => Running = {}
     /\ (~exited /\ exited') =>
          /\ Running = {}
          /\ sdOp.pc = "closing" \/ ~isConnected \/ useFallback
     /\ sdOp.pc = "closing" =>
          \A s \in 1..MaxRuns :
            syncRuns'[s].pc = "writing" =>
              syncRuns[s].pc = "writing" /\ syncRuns'[s].item = syncRuns[s].item]_vars
====
